---- MODULE Spec2Model ----
(***************************************************************************)
(* Batch scheduling and conflict-consistency engine of                     *)
(* app/scheduler_logic.py: the three tables of the SQLite store, the rule  *)
(* engine, the conflict detector, the renumbering service and the five     *)
(* mutators.                                                               *)
(*                                                                         *)
(* Values.                                                                 *)
(*  - A time string is a record [mins, padded]: the clock time it spells   *)
(*    in minutes after midnight and whether it is spelled zero-padded      *)
(*    ("09:00", padded) or not ("9:00"); mins = -1 is a string that is no  *)
(*    time at all, and NoTime is Python's None.                            *)
(*  - A date string dd.mm.yyyy is the tuple <<dd, mm, yyyy>>.              *)
(*  - A table is the set of its rows; a row is a record of its columns.    *)
(*    Columns no operation reads back (batch_member_id, added_at,          *)
(*    Batches.created_at, Batches.updated_at) are left out.                *)
(*  - db is the store: the three tables and the two AUTOINCREMENT          *)
(*    counters of sqlite_sequence that the model needs.                    *)
(***************************************************************************)
EXTENDS Integers, Sequences, FiniteSets, TLC

VARIABLES db, now, last, call, pre, probe

vars == <<db, now, last, call, pre, probe>>

(***************************************************************************)
(* RULES (scheduler_logic.py:19-24)                                        *)
(***************************************************************************)
batch_size_max == 30
batch_duration_minutes == 180
max_batches_per_day_per_practical == 3
min_gap_minutes == 60

(***************************************************************************)
(* Bounds of the model                                                     *)
(***************************************************************************)
MaxClock == 4
MaxOrderClock == 3
MaxCapClock == 3
MaxStepClock == 3
MaxEditClock == 2
MaxDetectClock == 2
MaxLateClock == 2
MaxRulesClock == 2

(***************************************************************************)
(* Time and date strings                                                   *)
(***************************************************************************)
NoDate == <<>>
NoTime == [mins |-> -2, padded |-> TRUE]
BadTime == [mins |-> -1, padded |-> TRUE]
HHMM(h, m) == [mins |-> h * 60 + m, padded |-> TRUE]
HMM(h, m) == [mins |-> h * 60 + m, padded |-> FALSE]

\* Python truthiness of an optional string argument (None and "" are false).
Truthy(s) == s # NoTime

\* datetime.strptime(s, "%H:%M") succeeds: padded or not, 00:00..23:59.
_valid_hhmm(s) == s.mins >= 0 /\ s.mins < 1440

\* int() of the two fields, plus the minutes, on a datetime of 1 Jan 2000:
\* the result is printed as the clock time alone, zero-padded.
_time_add(start_hhmm, minutes) == [mins |-> (start_hhmm.mins + minutes) % 1440, padded |-> TRUE]

\* zfill(2) of both fields.
_parse_hhmm(s) == [mins |-> s.mins, padded |-> TRUE]

\* datetime.strptime(_, "%H:%M") as minutes after midnight.
Strptime(s) == s.mins

\* SQLite's time(): NULL (here -1, NULL sorts first ascending) unless the
\* string is HH:MM with two-digit fields.
SqlTime(s) == IF s.padded /\ s.mins >= 0 THEN s.mins ELSE -1

\* datetime.strptime(d, "%d.%m.%Y") as a number that orders like the calendar.
DateKey(d) == d[3] * 10000 + d[2] * 100 + d[1]

\* Order of two dd.mm.yyyy strings as SQLite compares TEXT.
DateStrLess(d, e) == d[1] < e[1] \/ (d[1] = e[1] /\ (d[2] < e[2] \/ (d[2] = e[2] /\ d[3] < e[3])))

(***************************************************************************)
(* The catalog (PracticalMaster.csv), read only                            *)
(***************************************************************************)
PracticalMaster == [P1 |-> 60, P2 |-> 120]

total_candidates_for_practical(practical_code) == IF practical_code \in DOMAIN PracticalMaster THEN PracticalMaster[practical_code] ELSE 0

(***************************************************************************)
(* Rows                                                                    *)
(***************************************************************************)
NoRoom == "None"

BatchRow(bid, pc, no, di, d, st, en, room) == [batch_id |-> bid, practical_code |-> pc, batch_no |-> no, day_index |-> di, date |-> d, start_time |-> st, end_time |-> en, room_lab |-> room, status |-> "draft"]

MemberRow(bid, r, pc) == [batch_id |-> bid, reg_no |-> r, practical_code |-> pc]

IndexRow(id, r, d, st, en, pc, bid, at) == [idx_id |-> id, reg_no |-> r, date |-> d, start_time |-> st, end_time |-> en, practical_code |-> pc, source_batch_id |-> bid, created_at |-> at]

\* init_db on an empty file: three empty tables.
init_db == [Batches |-> {}, BatchMembers |-> {}, AssignmentsIndex |-> {}, seq_Batches |-> 0, seq_AssignmentsIndex |-> 0]

\* A set as a sequence, in the order Less gives (a strict total order on S).
RECURSIVE SetToSeq(_)
SetToSeq(S) == IF S = {} THEN <<>> ELSE LET x == CHOOSE y \in S : TRUE IN <<x>> \o SetToSeq(S \ {x})

Sorted(S, Less(_, _)) == SortSeq(SetToSeq(S), Less)

Range(f) == {f[i] : i \in DOMAIN f}

(***************************************************************************)
(* Batches: queries, rule engine, renumbering                              *)
(***************************************************************************)
\* SELECT * FROM Batches WHERE practical_code=? [AND date=?]
\* ORDER BY date, time(start_time): the rows, text order of the date first,
\* rows that tie in scan (batch_id) order.
get_batches_less(a, b) == DateStrLess(a.date, b.date) \/ (a.date = b.date /\ (SqlTime(a.start_time) < SqlTime(b.start_time) \/ (SqlTime(a.start_time) = SqlTime(b.start_time) /\ a.batch_id < b.batch_id)))

get_batches(d, practical_code, date) == Sorted({b \in d.Batches : b.practical_code = practical_code /\ (date = NoDate \/ b.date = date)}, get_batches_less)

count_batches_on_day(d, practical_code, date) == Cardinality({b \in d.Batches : b.practical_code = practical_code /\ b.date = date})

\* Variant of the rule engine that holds only practicals of up to 90 candidates
\* to the ceiling.
ensure_rules_before_batch_le90_only(d, practical_code, date, intended_batch_no) ==
  LET total == total_candidates_for_practical(practical_code)
      n == count_batches_on_day(d, practical_code, date)
  IN IF total <= 90 /\ intended_batch_no > 3 THEN [ok |-> FALSE, msg |-> "le90_max3"]
     ELSE IF total <= 90 /\ n >= max_batches_per_day_per_practical THEN [ok |-> FALSE, msg |-> "already3"]
     ELSE [ok |-> TRUE, msg |-> ""]

\* Variant of the rule engine that gives the general reason whatever the total.
ensure_rules_before_batch_one_reason(d, practical_code, date, intended_batch_no) ==
  LET total == total_candidates_for_practical(practical_code)
      n == count_batches_on_day(d, practical_code, date)
  IN IF total <= 90 /\ intended_batch_no > 3 THEN [ok |-> FALSE, msg |-> "max3"]
     ELSE IF total <= 90 /\ n >= max_batches_per_day_per_practical THEN [ok |-> FALSE, msg |-> "max3"]
     ELSE IF n >= max_batches_per_day_per_practical THEN [ok |-> FALSE, msg |-> "max3"]
     ELSE [ok |-> TRUE, msg |-> ""]

\* The body of ensure_rules_before_batch for a value max_per_day of
\* RULES["max_batches_per_day_per_practical"], a candidate total and a count of
\* batches on the date.  The reason strings are kept apart by a tag.
ensure_rules_with(max_per_day, total, n, intended_batch_no) ==
  IF total <= 90 /\ intended_batch_no > 3 THEN [ok |-> FALSE, msg |-> "le90_max3"]
  ELSE IF total <= 90 /\ n >= max_per_day THEN [ok |-> FALSE, msg |-> "already3"]
  ELSE IF n >= max_per_day THEN [ok |-> FALSE, msg |-> "max3"]
  ELSE [ok |-> TRUE, msg |-> ""]

\* With RULES as the module has it.
ensure_rules_before_batch(d, practical_code, date, intended_batch_no) ==
  ensure_rules_with(max_batches_per_day_per_practical, total_candidates_for_practical(practical_code), count_batches_on_day(d, practical_code, date), intended_batch_no)

DateKeyLess(x, y) == DateKey(x) < DateKey(y)

\* Variant that sorts the dates as strings.
_distinct_dates_sorted_as_text(d, practical_code) == Sorted({b.date : b \in {c \in d.Batches : c.practical_code = practical_code}}, DateStrLess)

\* lines 197-204: the practical's distinct dates, sorted by the strptime key.
_distinct_dates_sorted(d, practical_code) == Sorted({b.date : b \in {c \in d.Batches : c.practical_code = practical_code}}, DateKeyLess)

\* ORDER BY time(start_time); rows that tie come in scan (batch_id) order.
StartLess(a, b) == SqlTime(a.start_time) < SqlTime(b.start_time) \/ (SqlTime(a.start_time) = SqlTime(b.start_time) /\ a.batch_id < b.batch_id)

RowsOnDate(d, practical_code, date) == Sorted({b \in d.Batches : b.practical_code = practical_code /\ b.date = date}, StartLess)

\* The two nested loops of reorder_batches: the dates from position di on,
\* new_no the next number to hand out; gives the renumbered rows.
RECURSIVE ReorderFrom(_, _, _, _, _)
ReorderFrom(d, practical_code, dates, di, new_no) ==
  IF di > Len(dates) THEN {}
  ELSE LET rows == RowsOnDate(d, practical_code, dates[di])
       IN {[rows[i] EXCEPT !.batch_no = new_no + i - 1, !.day_index = di] : i \in 1..Len(rows)}
          \cup ReorderFrom(d, practical_code, dates, di + 1, new_no + Len(rows))

\* Variant that renumbers the batches of every practical, each in its own
\* sequence.
reorder_batches_every_practical(d, practical_code) ==
  [d EXCEPT !.Batches = UNION {ReorderFrom(d, p, _distinct_dates_sorted(d, p), 1, 1) : p \in {b.practical_code : b \in d.Batches}}]

\* lines 206-226.
reorder_batches(d, practical_code) ==
  LET dates == _distinct_dates_sorted(d, practical_code)
  IN IF Len(dates) = 0 THEN d
     ELSE [d EXCEPT !.Batches = {b \in d.Batches : b.practical_code # practical_code} \cup ReorderFrom(d, practical_code, dates, 1, 1)]

\* ORDER BY time(end_time) DESC, first row; "09:00" on an empty day.
suggest_next_start_time(d, practical_code, date) ==
  LET ends == {b.end_time : b \in {c \in d.Batches : c.practical_code = practical_code /\ c.date = date}}
  IN IF ends = {} THEN HHMM(9, 0)
     ELSE CHOOSE e \in ends : \A f \in ends : SqlTime(f) <= SqlTime(e)

(***************************************************************************)
(* Conflict detector                                                       *)
(***************************************************************************)
\* Variant of the predicate that counts a gap of exactly min_gap as too close.
_overlap_or_gap_less_than_le(a_start, a_end, b_start, b_end, min_gap) ==
  LET A_s == Strptime(_parse_hhmm(a_start))
      A_e == Strptime(_parse_hhmm(a_end))
      B_s == Strptime(_parse_hhmm(b_start))
      B_e == Strptime(_parse_hhmm(b_end))
      gap1 == B_s - A_e
      gap2 == A_s - B_e
  IN IF A_s < B_e /\ B_s < A_e THEN TRUE
     ELSE IF (0 <= gap1 /\ gap1 <= min_gap) \/ (0 <= gap2 /\ gap2 <= min_gap) THEN TRUE
     ELSE FALSE

_overlap_or_gap_less_than(a_start, a_end, b_start, b_end, min_gap) ==
  LET A_s == Strptime(_parse_hhmm(a_start))
      A_e == Strptime(_parse_hhmm(a_end))
      B_s == Strptime(_parse_hhmm(b_start))
      B_e == Strptime(_parse_hhmm(b_end))
      gap1 == B_s - A_e
      gap2 == A_s - B_e
  IN IF A_s < B_e /\ B_s < A_e THEN TRUE
     ELSE IF (0 <= gap1 /\ gap1 < min_gap) \/ (0 <= gap2 /\ gap2 < min_gap) THEN TRUE
     ELSE FALSE

Hit(row) == [reg_no |-> row.reg_no, practical_code |-> row.practical_code, start_time |-> row.start_time, end_time |-> row.end_time]

\* Variant of the detector that reads the rows of every date.
check_conflicts_for_students_any_date(d, date, start_time, end_time, reg_nos, exclude_source_batch_id) ==
  LET df == {row \in d.AssignmentsIndex : (exclude_source_batch_id = 0 \/ row.source_batch_id # exclude_source_batch_id)}
  IN {Hit(row) : row \in {x \in df : x.reg_no \in reg_nos /\ _overlap_or_gap_less_than(start_time, end_time, x.start_time, x.end_time, min_gap_minutes)}}

\* Variant of the detector that never leaves out the rows of a batch.
check_conflicts_for_students_no_exclude(d, date, start_time, end_time, reg_nos, exclude_source_batch_id) ==
  LET df == {row \in d.AssignmentsIndex : row.date = date}
  IN {Hit(row) : row \in {x \in df : x.reg_no \in reg_nos /\ _overlap_or_gap_less_than(start_time, end_time, x.start_time, x.end_time, min_gap_minutes)}}

\* The dict reg_no -> hits, as the set of its (reg_no, hit) pairs; exclude 0 is
\* exclude_source_batch_id=None.
check_conflicts_for_students(d, date, start_time, end_time, reg_nos, exclude_source_batch_id) ==
  LET df == {row \in d.AssignmentsIndex : row.date = date /\ (exclude_source_batch_id = 0 \/ row.source_batch_id # exclude_source_batch_id)}
  IN {Hit(row) : row \in {x \in df : x.reg_no \in reg_nos /\ _overlap_or_gap_less_than(start_time, end_time, x.start_time, x.end_time, min_gap_minutes)}}

(***************************************************************************)
(* Writes                                                                  *)
(***************************************************************************)
\* INSERT INTO AssignmentsIndex, one row after the other: rows is a sequence
\* of rows whose idx_id is still to be given by AUTOINCREMENT.
RECURSIVE InsertIndexRows(_, _)
InsertIndexRows(d, rows) ==
  IF rows = <<>> THEN d
  ELSE LET id == d.seq_AssignmentsIndex + 1
       IN InsertIndexRows([d EXCEPT !.AssignmentsIndex = @ \cup {[Head(rows) EXCEPT !.idx_id = id]}, !.seq_AssignmentsIndex = id], Tail(rows))

IdxLess(a, b) == a.idx_id < b.idx_id

RegLess(a, b) == a < b

\* DELETE FROM AssignmentsIndex WHERE source_batch_id=?
DeleteIndexOfBatch(d, batch_id) == [d EXCEPT !.AssignmentsIndex = {row \in @ : row.source_batch_id # batch_id}]

\* DELETE FROM Batches WHERE batch_id=?, with PRAGMA foreign_keys=ON: the
\* BatchMembers rows of the batch go with it (ON DELETE CASCADE).
DeleteBatchRow(d, batch_id) == [d EXCEPT !.Batches = {b \in @ : b.batch_id # batch_id}, !.BatchMembers = {m \in @ : m.batch_id # batch_id}]

\* Variant that deletes the batch rows (and, by the cascade, the membership
\* rows) and leaves the index rows.
_delete_duplicate_batch_rows_keep_index(d, practical_code, date, start_time) ==
  LET dup == {b.batch_id : b \in {c \in d.Batches : c.practical_code = practical_code /\ c.date = date /\ c.start_time = start_time}}
  IN [d EXCEPT !.Batches = {b \in @ : b.batch_id \notin dup},
               !.BatchMembers = {m \in @ : m.batch_id \notin dup}]

\* Variant whose SELECT leaves out practical_code=?: every batch at the date
\* and start is deleted.
_delete_duplicate_batch_rows_any_practical(d, practical_code, date, start_time) ==
  LET dup == {b.batch_id : b \in {c \in d.Batches : c.date = date /\ c.start_time = start_time}}
  IN [d EXCEPT !.AssignmentsIndex = {row \in @ : row.source_batch_id \notin dup},
               !.Batches = {b \in @ : b.batch_id \notin dup},
               !.BatchMembers = {m \in @ : m.batch_id \notin dup}]

\* lines 241-260.
_delete_duplicate_batch_rows(d, practical_code, date, start_time) ==
  LET dup == {b.batch_id : b \in {c \in d.Batches : c.practical_code = practical_code /\ c.date = date /\ c.start_time = start_time}}
  IN [d EXCEPT !.AssignmentsIndex = {row \in @ : row.source_batch_id \notin dup},
               !.Batches = {b \in @ : b.batch_id \notin dup},
               !.BatchMembers = {m \in @ : m.batch_id \notin dup}]

(***************************************************************************)
(* Mutators, one transaction (up to conn.commit()) per step.  A frame is   *)
(* the call in flight: its arguments, its locals and pc, the transaction   *)
(* it runs next.  A step gives the store as committed, the frame that is   *)
(* left (Idle once the call has returned) and the value returned.          *)
(***************************************************************************)
Idle == [op |-> "idle", pc |-> 0]

NoRet == [ok |-> TRUE, msg |-> "", batch_id |-> 0, conflicts |-> {}]

Return(d, ok, msg, batch_id, conflicts) == [db |-> d, call |-> Idle, ret |-> [ok |-> ok, msg |-> msg, batch_id |-> batch_id, conflicts |-> conflicts]]

Goto(d, frame, pc) == [db |-> d, call |-> [frame EXCEPT !.pc = pc], ret |-> NoRet]

\* Variant that removes the batch that holds the slot first and runs the rule
\* check on what is left.
add_batch_autosequence_1_replace_first(d, f) ==
  LET start_time == IF ~Truthy(f.start_time) \/ ~_valid_hhmm(f.start_time) THEN suggest_next_start_time(d, f.practical_code, f.date) ELSE f.start_time
      kept == _delete_duplicate_batch_rows(d, f.practical_code, f.date, start_time)
      intended_no == Len(get_batches(kept, f.practical_code, f.date)) + 1
      rule == ensure_rules_before_batch(kept, f.practical_code, f.date, intended_no)
  IN IF ~rule.ok THEN Return(kept, FALSE, rule.msg, 0, {})
     ELSE Goto(kept, [f EXCEPT !.start_time = start_time, !.intended_no = intended_no], 2)

\* add_batch_autosequence, lines 269-279: rule check, start time, removal of
\* the batch that holds the slot.
add_batch_autosequence_1(d, f) ==
  LET intended_no == Len(get_batches(d, f.practical_code, f.date)) + 1
      rule == ensure_rules_before_batch(d, f.practical_code, f.date, intended_no)
      start_time == IF ~Truthy(f.start_time) \/ ~_valid_hhmm(f.start_time) THEN suggest_next_start_time(d, f.practical_code, f.date) ELSE f.start_time
  IN IF ~rule.ok THEN Return(d, FALSE, rule.msg, 0, {})
     ELSE Goto(_delete_duplicate_batch_rows(d, f.practical_code, f.date, start_time), [f EXCEPT !.start_time = start_time, !.intended_no = intended_no], 2)

\* lines 281-290: the INSERT.
add_batch_autosequence_2(d, f) ==
  LET end_time == _time_add(f.start_time, batch_duration_minutes)
      batch_id == d.seq_Batches + 1
  IN Goto([d EXCEPT !.Batches = @ \cup {BatchRow(batch_id, f.practical_code, f.intended_no, 1, f.date, f.start_time, end_time, f.room_lab)}, !.seq_Batches = batch_id], [f EXCEPT !.batch_id = batch_id], 3)

\* lines 292-293.
add_batch_autosequence_3(d, f) == Return(reorder_batches(d, f.practical_code), TRUE, "created", f.batch_id, {})

\* update_batch_times, lines 306-331: the row, the new slot, the snapshot,
\* and the committed DELETE of the batch's index rows.
update_batch_times_1(d, f) ==
  LET found == {b \in d.Batches : b.batch_id = f.batch_id}
  IN IF found = {} THEN Return(d, FALSE, "not_found", 0, {})
     ELSE LET row == CHOOSE b \in found : TRUE
              new_date == IF f.date # NoDate THEN f.date ELSE row.date
              new_start == IF Truthy(f.start_time) THEN f.start_time ELSE row.start_time
          IN IF ~_valid_hhmm(new_start) THEN Return(d, FALSE, "invalid_start", 0, {})
             ELSE Goto(DeleteIndexOfBatch(d, f.batch_id),
                       [f EXCEPT !.practical_code = row.practical_code, !.date = new_date, !.start_time = new_start,
                                 !.prev_ai = Sorted({r \in d.AssignmentsIndex : r.source_batch_id = f.batch_id}, IdxLess)], 2)

\* Variant whose UPDATE sets room_lab to the argument without COALESCE.
update_batch_times_2_room_overwritten(d, f, t) ==
  LET new_end == _time_add(f.start_time, batch_duration_minutes)
      reg_nos == {m.reg_no : m \in {x \in d.BatchMembers : x.batch_id = f.batch_id}}
      conflicts == IF reg_nos # {} THEN check_conflicts_for_students(d, f.date, f.start_time, new_end, reg_nos, 0) ELSE {}
      fresh == [i \in 1..Cardinality(reg_nos) |-> IndexRow(0, Sorted(reg_nos, RegLess)[i], f.date, f.start_time, new_end, f.practical_code, f.batch_id, t)]
  IN IF conflicts # {} THEN Return(InsertIndexRows(d, f.prev_ai), FALSE, "conflict", 0, conflicts)
     ELSE Goto(InsertIndexRows([d EXCEPT !.Batches = {IF b.batch_id = f.batch_id
                                                      THEN [b EXCEPT !.date = f.date, !.start_time = f.start_time, !.end_time = new_end, !.room_lab = f.room_lab]
                                                      ELSE b : b \in @}], fresh), f, 3)

\* lines 333-365: members, conflict check, then either the re-insert of the
\* snapshot or the UPDATE and the fresh index rows.
update_batch_times_2(d, f, t) ==
  LET new_end == _time_add(f.start_time, batch_duration_minutes)
      reg_nos == {m.reg_no : m \in {x \in d.BatchMembers : x.batch_id = f.batch_id}}
      conflicts == IF reg_nos # {} THEN check_conflicts_for_students(d, f.date, f.start_time, new_end, reg_nos, 0) ELSE {}
      fresh == [i \in 1..Cardinality(reg_nos) |-> IndexRow(0, Sorted(reg_nos, RegLess)[i], f.date, f.start_time, new_end, f.practical_code, f.batch_id, t)]
  IN IF conflicts # {} THEN Return(InsertIndexRows(d, f.prev_ai), FALSE, "conflict", 0, conflicts)
     ELSE Goto(InsertIndexRows([d EXCEPT !.Batches = {IF b.batch_id = f.batch_id
                                                      THEN [b EXCEPT !.date = f.date, !.start_time = f.start_time, !.end_time = new_end,
                                                                     !.room_lab = IF f.room_lab # NoRoom THEN f.room_lab ELSE @]
                                                      ELSE b : b \in @}], fresh), f, 3)

\* lines 366-378: a write of the update step raised.  conn.rollback() undoes
\* the UPDATE and the fresh rows; the snapshot is re-inserted and committed,
\* unless that raises too (restored = FALSE) and is rolled back.
update_batch_times_2_failed(d, f, restored) == Return(IF restored THEN InsertIndexRows(d, f.prev_ai) ELSE d, FALSE, "failed", 0, {})

\* lines 380-382.
update_batch_times_3(d, f) == Return(reorder_batches(d, f.practical_code), TRUE, "updated", 0, {})

\* delete_batch, lines 391-406.
delete_batch_1(d, f) ==
  LET found == {b \in d.Batches : b.batch_id = f.batch_id}
  IN IF found = {} THEN Return(d, FALSE, "not_found", 0, {})
     ELSE Goto(DeleteBatchRow(DeleteIndexOfBatch(d, f.batch_id), f.batch_id), [f EXCEPT !.practical_code = (CHOOSE b \in found : TRUE).practical_code], 2)

\* Variant of the last step that returns without renumbering.
delete_batch_2_no_reorder(d, f) == Return(d, TRUE, "deleted", 0, {})

\* lines 408-409.
delete_batch_2(d, f) == Return(reorder_batches(d, f.practical_code), TRUE, "deleted", 0, {})

\* Variant of the first step whose capacity test leaves out the current member count.
add_students_to_batch_1_no_count(d, f) ==
  LET found == {b \in d.Batches : b.batch_id = f.batch_id}
      row == CHOOSE b \in found : TRUE
      current == Cardinality({m \in d.BatchMembers : m.batch_id = f.batch_id})
      conflicts == check_conflicts_for_students(d, row.date, row.start_time, row.end_time, f.reg_nos, 0)
      present == {m.reg_no : m \in {x \in d.BatchMembers : x.batch_id = f.batch_id}}
  IN IF found = {} THEN Return(d, FALSE, "not_found", 0, {})
     ELSE IF Cardinality(f.reg_nos) > batch_size_max THEN Return(d, FALSE, "capacity", 0, {})
     ELSE IF conflicts # {} THEN Return(d, FALSE, "conflict", 0, conflicts)
     ELSE Goto([d EXCEPT !.BatchMembers = @ \cup {MemberRow(f.batch_id, r, f.practical_code) : r \in f.reg_nos \ present}],
               [f EXCEPT !.date = row.date, !.start_time = row.start_time, !.end_time = row.end_time], 2)

\* Variant of the first step whose capacity test rejects a request that fills the batch exactly.
add_students_to_batch_1_ge(d, f) ==
  LET found == {b \in d.Batches : b.batch_id = f.batch_id}
      row == CHOOSE b \in found : TRUE
      current == Cardinality({m \in d.BatchMembers : m.batch_id = f.batch_id})
      conflicts == check_conflicts_for_students(d, row.date, row.start_time, row.end_time, f.reg_nos, 0)
      present == {m.reg_no : m \in {x \in d.BatchMembers : x.batch_id = f.batch_id}}
  IN IF found = {} THEN Return(d, FALSE, "not_found", 0, {})
     ELSE IF current + Cardinality(f.reg_nos) >= batch_size_max THEN Return(d, FALSE, "capacity", 0, {})
     ELSE IF conflicts # {} THEN Return(d, FALSE, "conflict", 0, conflicts)
     ELSE Goto([d EXCEPT !.BatchMembers = @ \cup {MemberRow(f.batch_id, r, f.practical_code) : r \in f.reg_nos \ present}],
               [f EXCEPT !.date = row.date, !.start_time = row.start_time, !.end_time = row.end_time], 2)

\* Variant of the first step that admits the students without a conflict.
add_students_to_batch_1_partial(d, f) ==
  LET found == {b \in d.Batches : b.batch_id = f.batch_id}
      row == CHOOSE b \in found : TRUE
      current == Cardinality({m \in d.BatchMembers : m.batch_id = f.batch_id})
      conflicts == check_conflicts_for_students(d, row.date, row.start_time, row.end_time, f.reg_nos, 0)
      present == {m.reg_no : m \in {x \in d.BatchMembers : x.batch_id = f.batch_id}}
  IN IF found = {} THEN Return(d, FALSE, "not_found", 0, {})
     ELSE IF current + Cardinality(f.reg_nos) > batch_size_max THEN Return(d, FALSE, "capacity", 0, {})
     ELSE LET free == f.reg_nos \ {c.reg_no : c \in conflicts}
          IN Goto([d EXCEPT !.BatchMembers = @ \cup {MemberRow(f.batch_id, r, f.practical_code) : r \in free \ present}],
                  [f EXCEPT !.reg_nos = free, !.date = row.date, !.start_time = row.start_time, !.end_time = row.end_time], 2)

\* add_students_to_batch, lines 521-551: the batch, the capacity rule, the
\* conflict check, and the committed INSERT OR IGNORE of the members.
add_students_to_batch_1(d, f) ==
  LET found == {b \in d.Batches : b.batch_id = f.batch_id}
      row == CHOOSE b \in found : TRUE
      current == Cardinality({m \in d.BatchMembers : m.batch_id = f.batch_id})
      conflicts == check_conflicts_for_students(d, row.date, row.start_time, row.end_time, f.reg_nos, 0)
      present == {m.reg_no : m \in {x \in d.BatchMembers : x.batch_id = f.batch_id}}
  IN IF found = {} THEN Return(d, FALSE, "not_found", 0, {})
     ELSE IF current + Cardinality(f.reg_nos) > batch_size_max THEN Return(d, FALSE, "capacity", 0, {})
     ELSE IF conflicts # {} THEN Return(d, FALSE, "conflict", 0, conflicts)
     ELSE Goto([d EXCEPT !.BatchMembers = @ \cup {MemberRow(f.batch_id, r, f.practical_code) : r \in f.reg_nos \ present}],
               [f EXCEPT !.date = row.date, !.start_time = row.start_time, !.end_time = row.end_time], 2)

\* lines 553-559: per student, DELETE then INSERT of the index row.
add_students_to_batch_2(d, f, t) ==
  LET kept == [d EXCEPT !.AssignmentsIndex = {row \in @ : ~(row.reg_no \in f.reg_nos /\ row.source_batch_id = f.batch_id)}]
      regs == Sorted(f.reg_nos, RegLess)
      fresh == [i \in 1..Len(regs) |-> IndexRow(0, regs[i], f.date, f.start_time, f.end_time, f.practical_code, f.batch_id, t)]
  IN Return(InsertIndexRows(kept, fresh), TRUE, "added", 0, {})

\* Variant that deletes the membership row and leaves the index row.
remove_student_from_batch_1_keep_index(d, f) ==
  Return([d EXCEPT !.BatchMembers = {m \in @ : ~(m.batch_id = f.batch_id /\ m.reg_no = f.reg_no)}], TRUE, "removed", 0, {})

\* Variant whose DELETEs leave out the batch: the student is taken out of
\* every batch.
remove_student_from_batch_1_every_batch(d, f) ==
  Return([d EXCEPT !.BatchMembers = {m \in @ : m.reg_no # f.reg_no},
                   !.AssignmentsIndex = {row \in @ : row.reg_no # f.reg_no}], TRUE, "removed", 0, {})

\* remove_student_from_batch, lines 575-583.
remove_student_from_batch_1(d, f) ==
  Return([d EXCEPT !.BatchMembers = {m \in @ : ~(m.batch_id = f.batch_id /\ m.reg_no = f.reg_no)},
                   !.AssignmentsIndex = {row \in @ : ~(row.source_batch_id = f.batch_id /\ row.reg_no = f.reg_no)}], TRUE, "removed", 0, {})

\* The transaction a frame runs next, at clock time t.
Step(d, f, t) ==
  CASE f.op = "create" /\ f.pc = 1 -> add_batch_autosequence_1(d, f)
    [] f.op = "create" /\ f.pc = 2 -> add_batch_autosequence_2(d, f)
    [] f.op = "create" /\ f.pc = 3 -> add_batch_autosequence_3(d, f)
    [] f.op = "edit" /\ f.pc = 1 -> update_batch_times_1(d, f)
    [] f.op = "edit" /\ f.pc = 2 -> update_batch_times_2(d, f, t)
    [] f.op = "edit" /\ f.pc = 3 -> update_batch_times_3(d, f)
    [] f.op = "delete" /\ f.pc = 1 -> delete_batch_1(d, f)
    [] f.op = "delete" /\ f.pc = 2 -> delete_batch_2(d, f)
    [] f.op = "add" /\ f.pc = 1 -> add_students_to_batch_1(d, f)
    [] f.op = "add" /\ f.pc = 2 -> add_students_to_batch_2(d, f, t)
    [] f.op = "remove" /\ f.pc = 1 -> remove_student_from_batch_1(d, f)

\* A call run to its return without anything in between.
RECURSIVE Run(_, _, _)
Run(d, f, t) == LET r == Step(d, f, t) IN IF r.call = Idle THEN r ELSE Run(r.db, r.call, t)

\* The frames of the five calls as they start.
CreateFrame(practical_code, date, start_time, room_lab) == [op |-> "create", pc |-> 1, practical_code |-> practical_code, date |-> date, start_time |-> start_time, room_lab |-> room_lab, intended_no |-> 0, batch_id |-> 0]

EditFrame(batch_id, date, start_time, room_lab) == [op |-> "edit", pc |-> 1, batch_id |-> batch_id, date |-> date, start_time |-> start_time, room_lab |-> room_lab, practical_code |-> "", prev_ai |-> <<>>]

DeleteFrame(batch_id) == [op |-> "delete", pc |-> 1, batch_id |-> batch_id, practical_code |-> ""]

AddFrame(batch_id, practical_code, reg_nos) == [op |-> "add", pc |-> 1, batch_id |-> batch_id, practical_code |-> practical_code, reg_nos |-> reg_nos, date |-> NoDate, start_time |-> NoTime, end_time |-> NoTime]

RemoveFrame(batch_id, reg_no) == [op |-> "remove", pc |-> 1, batch_id |-> batch_id, reg_no |-> reg_no]

\* The five mutators as whole calls: the store afterwards and the return value.
add_batch_autosequence(d, practical_code, date, start_time, room_lab, t) == Run(d, CreateFrame(practical_code, date, start_time, room_lab), t)

update_batch_times(d, batch_id, date, start_time, room_lab, t) == Run(d, EditFrame(batch_id, date, start_time, room_lab), t)

delete_batch(d, batch_id, t) == Run(d, DeleteFrame(batch_id), t)

add_students_to_batch(d, batch_id, practical_code, reg_nos, t) == Run(d, AddFrame(batch_id, practical_code, reg_nos), t)

remove_student_from_batch(d, batch_id, reg_no, t) == Run(d, RemoveFrame(batch_id, reg_no), t)

(***************************************************************************)
(* The engine driven by one operator session.  The clock                   *)
(* (CURRENT_TIMESTAMP) advances by one with every call; maxT is the time   *)
(* after which the session makes no further call.  last is what the last   *)
(* call returned; call is the call in flight; pre is the store, the frame  *)
(* and the time at which the call in flight (or the last call) started,    *)
(* kept only where calls are run step by step.                             *)
(***************************************************************************)
Practicals == {"P1", "P2"}
Feb1 == <<1, 2, 2026>>
Jan2 == <<2, 1, 2026>>

\* The batch ids a caller may name: every id handed out so far, and one that
\* never was.
BatchIds == 1..(db.seq_Batches + 1)

\* The practical the operator has selected in the scheduler page when adding
\* to a batch (ui_scheduler_full.py:653): the batch's own.
PracticalOf(d, batch_id) == {b.practical_code : b \in {c \in d.Batches : c.batch_id = batch_id}}

SelectedPractical(d, batch_id) == IF PracticalOf(d, batch_id) = {} THEN {"P1"} ELSE PracticalOf(d, batch_id)

\* What is kept of a call that has returned: the operation, the batch and the
\* students it named (for a create, the batch id it returned) and the outcome.
Result(f, r) == [op |-> f.op, ok |-> r.ret.ok, msg |-> r.ret.msg, batch_id |-> IF f.op = "create" THEN r.ret.batch_id ELSE f.batch_id, reg_nos |-> IF f.op = "add" THEN f.reg_nos ELSE {}]

NoCall == [db |-> init_db, f |-> Idle, t |-> 0]

\* probe holds the arguments and the value of a helper that is applied on its
\* own; NoProbe when none is.
NoProbe == [fn |-> "none"]

\* One whole call.
Call(f, maxT) ==
  /\ call = Idle
  /\ now < maxT
  /\ now' = now + 1
  /\ LET r == Run(db, f, now + 1)
     IN /\ db' = r.db
        /\ last' = Result(f, r)
  /\ UNCHANGED <<call, pre, probe>>

InitWith(d) ==
  /\ db = d
  /\ now = 0
  /\ last = [op |-> "init", ok |-> TRUE, msg |-> "", batch_id |-> 0, reg_nos |-> {}]
  /\ call = Idle
  /\ pre = NoCall
  /\ probe = NoProbe

(***************************************************************************)
(* Spec: the five mutators on an empty store, two practicals on one date.  *)
(* Default start 09:00, then 12:00 (gap 0 to the first), 13:00 (gap 60 to  *)
(* the first), 22:00 (ends after midnight).                                *)
(***************************************************************************)
StartArgs == {NoTime, HHMM(13, 0), HHMM(22, 0)}
RegNos == {1, 2}

Init == InitWith(init_db)

CreateBatch(practical_code, date, start_time, room_lab) == Call(CreateFrame(practical_code, date, start_time, room_lab), MaxClock)

EditBatch(batch_id, date, start_time, room_lab) == Call(EditFrame(batch_id, date, start_time, room_lab), MaxClock)

DeleteBatch(batch_id) == Call(DeleteFrame(batch_id), MaxClock)

AddStudents(batch_id, practical_code, reg_nos) == Call(AddFrame(batch_id, practical_code, reg_nos), MaxClock)

RemoveStudent(batch_id, reg_no) == Call(RemoveFrame(batch_id, reg_no), MaxClock)

Next ==
  \/ \E p \in Practicals, s \in StartArgs : CreateBatch(p, Feb1, s, NoRoom)
  \/ \E b \in BatchIds, s \in StartArgs : EditBatch(b, NoDate, s, NoRoom)
  \/ \E b \in BatchIds : DeleteBatch(b)
  \/ \E b \in BatchIds, R \in SUBSET RegNos \ {{}} : \E p \in SelectedPractical(db, b) : AddStudents(b, p, R)
  \/ \E b \in BatchIds, r \in RegNos : RemoveStudent(b, r)

Spec == Init /\ [][Next]_vars

(***************************************************************************)
(* SpecOrder: create, edit and delete on two dates whose text order is not *)
(* their calendar order, with a start before the default one and an        *)
(* unpadded one.  The session starts on a store in which P1 already has    *)
(* its three batches of 1 Feb (three create calls without a start).        *)
(***************************************************************************)
OrderDates == {Feb1, Jan2}
OrderStarts == {NoTime, HHMM(8, 0), HMM(9, 0)}
OrderEdits == {<<NoDate, HHMM(8, 0)>>, <<NoDate, HMM(9, 0)>>, <<Feb1, NoTime>>, <<Jan2, NoTime>>}

Created(d, practical_code, date, start_time) == add_batch_autosequence(d, practical_code, date, start_time, NoRoom, 0).db

SeedDay == Created(Created(Created(init_db, "P1", Feb1, NoTime), "P1", Feb1, NoTime), "P1", Feb1, NoTime)

InitOrder == InitWith(SeedDay)

OrderCreate(practical_code, date, start_time) == Call(CreateFrame(practical_code, date, start_time, NoRoom), MaxOrderClock)

OrderEdit(batch_id, date, start_time) == Call(EditFrame(batch_id, date, start_time, NoRoom), MaxOrderClock)

OrderDelete(batch_id) == Call(DeleteFrame(batch_id), MaxOrderClock)

NextOrder ==
  \/ \E p \in Practicals, d \in OrderDates, s \in OrderStarts : OrderCreate(p, d, s)
  \/ \E b \in BatchIds, e \in OrderEdits : OrderEdit(b, e[1], e[2])
  \/ \E b \in BatchIds : OrderDelete(b)

SpecOrder == InitOrder /\ [][NextOrder]_vars

(***************************************************************************)
(* SpecEdit: the five mutators on a store in which student 1 sits P1 at    *)
(* 13:00-16:00 (batch 1) and, with student 2, P2 at 09:00-12:00 (batch 2)  *)
(* on the same date: two creates and two add-members calls at time 0.      *)
(***************************************************************************)
Added(d, batch_id, practical_code, reg_nos) == add_students_to_batch(d, batch_id, practical_code, reg_nos, 0).db

SeedEdit == Added(Added(Created(Created(init_db, "P1", Feb1, HHMM(13, 0)), "P2", Feb1, NoTime), 1, "P1", {1}), 2, "P2", {1, 2})

InitEdit == InitWith(SeedEdit)

EditStarts == {NoTime, HHMM(13, 0), HHMM(16, 30), HHMM(17, 0)}

NextEdit ==
  \/ \E p \in Practicals, s \in EditStarts : Call(CreateFrame(p, Feb1, s, NoRoom), MaxEditClock)
  \/ \E b \in BatchIds, d \in {NoDate, Jan2}, s \in EditStarts, room \in {NoRoom, "Lab"} : Call(EditFrame(b, d, s, room), MaxEditClock)
  \/ \E b \in BatchIds : Call(DeleteFrame(b), MaxEditClock)
  \/ \E b \in BatchIds, R \in SUBSET RegNos \ {{}} : \E p \in SelectedPractical(db, b) : Call(AddFrame(b, p, R), MaxEditClock)
  \/ \E b \in BatchIds, r \in RegNos : Call(RemoveFrame(b, r), MaxEditClock)

SpecEdit == InitEdit /\ [][NextEdit]_vars

(***************************************************************************)
(* SpecCap: add-members and remove-member with enough students to fill a   *)
(* batch.  Batch 1 (P1) and batch 2 (P2) both sit 09:00-12:00 on 1 Feb,    *)
(* so a member of one conflicts at the other.  A request names the block   *)
(* of batch_size_max - 1 students, the two further students, or a union.   *)
(***************************************************************************)
Block == 1..(batch_size_max - 1)
Extra1 == batch_size_max
Extra2 == batch_size_max + 1
CapRequests == {Block, {Extra1}, {Extra2}, Block \cup {Extra1}, Block \cup {Extra2}, {Extra1, Extra2}, Block \cup {Extra1, Extra2}}
CapBatchIds == {1, 2}

SeedCap == Created(Created(init_db, "P1", Feb1, NoTime), "P2", Feb1, NoTime)

InitCap == InitWith(SeedCap)

CapAdd(batch_id, practical_code, reg_nos) == Call(AddFrame(batch_id, practical_code, reg_nos), MaxCapClock)

CapRemove(batch_id, reg_no) == Call(RemoveFrame(batch_id, reg_no), MaxCapClock)

NextCap ==
  \/ \E b \in CapBatchIds, R \in CapRequests : \E p \in SelectedPractical(db, b) : CapAdd(b, p, R)
  \/ \E b \in CapBatchIds, r \in {1, Extra1, Extra2} : CapRemove(b, r)

SpecCap == InitCap /\ [][NextCap]_vars

(***************************************************************************)
(* SpecSteps: the mutators one committed transaction at a time.  A call    *)
(* begins with its first transaction, goes on with the next one, and can   *)
(* stop between two commits (the process ends, or a statement raises): the *)
(* store then keeps what was committed.  pre is the store and the frame    *)
(* the running call began with.                                            *)
(***************************************************************************)
StepStarts == {NoTime, HHMM(13, 0)}
StepRegNos == {1, 2}

SeedSteps == Added(Created(init_db, "P1", Feb1, NoTime), 1, "P1", {1})

InitSteps == InitWith(SeedSteps)

Running(f) == [op |-> f.op, ok |-> FALSE, msg |-> "running", batch_id |-> IF f.op = "create" THEN 0 ELSE f.batch_id, reg_nos |-> IF f.op = "add" THEN f.reg_nos ELSE {}]

Begin(f) ==
  /\ call = Idle
  /\ now < MaxStepClock
  /\ now' = now + 1
  /\ pre' = [db |-> db, f |-> f, t |-> now + 1]
  /\ UNCHANGED probe
  /\ LET r == Step(db, f, now + 1)
     IN /\ db' = r.db
        /\ call' = r.call
        /\ last' = IF r.call = Idle THEN Result(f, r) ELSE Running(f)

Continue ==
  /\ call # Idle
  /\ LET r == Step(db, call, now)
     IN /\ db' = r.db
        /\ call' = r.call
        /\ last' = IF r.call = Idle THEN Result(pre.f, r) ELSE last
  /\ UNCHANGED <<now, pre, probe>>

Interrupt ==
  /\ call # Idle
  /\ call' = Idle
  /\ last' = [last EXCEPT !.msg = "interrupted"]
  /\ UNCHANGED <<db, now, pre, probe>>

StepCreate(practical_code, date, start_time, room_lab) == Begin(CreateFrame(practical_code, date, start_time, room_lab))

StepEdit(batch_id, date, start_time, room_lab) == Begin(EditFrame(batch_id, date, start_time, room_lab))

StepDelete(batch_id) == Begin(DeleteFrame(batch_id))

StepAdd(batch_id, practical_code, reg_nos) == Begin(AddFrame(batch_id, practical_code, reg_nos))

StepRemove(batch_id, reg_no) == Begin(RemoveFrame(batch_id, reg_no))

NextSteps ==
  \/ \E p \in Practicals, s \in StepStarts : StepCreate(p, Feb1, s, NoRoom)
  \/ \E b \in BatchIds, s \in StepStarts : StepEdit(b, NoDate, s, NoRoom)
  \/ \E b \in BatchIds : StepDelete(b)
  \/ \E b \in BatchIds, R \in SUBSET StepRegNos \ {{}} : \E p \in SelectedPractical(db, b) : StepAdd(b, p, R)
  \/ \E b \in BatchIds, r \in StepRegNos : StepRemove(b, r)
  \/ Continue
  \/ Interrupt

SpecSteps == InitSteps /\ [][NextSteps]_vars

(***************************************************************************)
(* Claims                                                                  *)
(***************************************************************************)
BatchesOf(practical_code) == {b \in db.Batches : b.practical_code = practical_code}

\* The (date, start) of a is earlier than that of b, by the calendar and the clock.
Earlier(a, b) == DateKey(a.date) < DateKey(b.date) \/ (a.date = b.date /\ Strptime(a.start_time) < Strptime(b.start_time))

\* C1 (density invariant): for every practical with N batches the batch_no
\* values are exactly 1..N, each used once, and a batch with an earlier
\* (date, start) never has a larger batch_no than one with a later (date, start).
C1_Density ==
  \A p \in Practicals :
    /\ {b.batch_no : b \in BatchesOf(p)} = 1..Cardinality(BatchesOf(p))
    /\ \A a, b \in BatchesOf(p) : (a.batch_id # b.batch_id) => (a.batch_no # b.batch_no)
    /\ \A a, b \in BatchesOf(p) : Earlier(a, b) => (a.batch_no < b.batch_no)

\* C1, the numbers alone: exactly 1..N, each used once.
C1_Dense ==
  \A p \in Practicals :
    /\ {b.batch_no : b \in BatchesOf(p)} = 1..Cardinality(BatchesOf(p))
    /\ \A a, b \in BatchesOf(p) : (a.batch_id # b.batch_id) => (a.batch_no # b.batch_no)

\* C5 (per-day ceiling): no practical has more than 3 batches on one date.
C5_DayCeiling == \A p \in Practicals : \A b \in BatchesOf(p) : count_batches_on_day(db, p, b.date) <= 3

\* The minute at which the sitting of an index row starts and the minute at
\* which it ends: a sitting does not end before it starts, so an end_time
\* that reads earlier than the start_time is a time of the next day.
StartOf(row) == Strptime(row.start_time)
EndOf(row) == IF Strptime(row.end_time) < Strptime(row.start_time) THEN Strptime(row.end_time) + 1440 ELSE Strptime(row.end_time)

\* C2 (no double booking): two index rows of one student on one date that come
\* from different batches do not overlap, and the later one starts at least
\* min_gap_minutes after the earlier one ends.
C2_NoDoubleBooking ==
  \A x, y \in db.AssignmentsIndex :
    (x.reg_no = y.reg_no /\ x.date = y.date /\ x.source_batch_id # y.source_batch_id /\ StartOf(x) <= StartOf(y))
      => StartOf(y) - EndOf(x) >= min_gap_minutes

\* C2 for the sittings that end on the day they start.
C2_NoDoubleBookingSameDay ==
  \A x, y \in db.AssignmentsIndex :
    (x.reg_no = y.reg_no /\ x.date = y.date /\ x.source_batch_id # y.source_batch_id /\ StartOf(x) <= StartOf(y)
     /\ EndOf(x) < 1440 /\ EndOf(y) < 1440)
      => StartOf(y) - EndOf(x) >= min_gap_minutes

\* C4 (rollback on edit conflict): an edit-timing call rejected for a conflict
\* leaves AssignmentsIndex (idx_id and created_at included), Batches and
\* BatchMembers as they were before the call.
C4_RollbackIdentical ==
  [][(last'.op = "edit" /\ last'.msg = "conflict")
       => (db'.AssignmentsIndex = db.AssignmentsIndex /\ db'.Batches = db.Batches /\ db'.BatchMembers = db.BatchMembers)]_vars

\* C4 without the row identifier: every column but idx_id is as it was.
Content(rows) == {[reg_no |-> r.reg_no, date |-> r.date, start_time |-> r.start_time, end_time |-> r.end_time, practical_code |-> r.practical_code, source_batch_id |-> r.source_batch_id, created_at |-> r.created_at] : r \in rows}

C4_RollbackContent ==
  [][(last'.op = "edit" /\ last'.msg = "conflict")
       => (/\ Content(db'.AssignmentsIndex) = Content(db.AssignmentsIndex)
           /\ Cardinality(db'.AssignmentsIndex) = Cardinality(db.AssignmentsIndex)
           /\ db'.Batches = db.Batches /\ db'.BatchMembers = db.BatchMembers)]_vars

\* C7 (same-practical uniqueness): no student is a member of two different
\* batches of the same practical.
BatchPractical(batch_id) == (CHOOSE b \in db.Batches : b.batch_id = batch_id).practical_code

C7_OneBatchPerPractical ==
  \A m, n \in db.BatchMembers :
    (m.reg_no = n.reg_no /\ m.batch_id # n.batch_id) => BatchPractical(m.batch_id) # BatchPractical(n.batch_id)

MembersOf(batch_id) == {m.reg_no : m \in {x \in db.BatchMembers : x.batch_id = batch_id}}

\* C6 (capacity): every batch has at most 30 member rows.
C6_Capacity == \A id \in {m.batch_id : m \in db.BatchMembers} : Cardinality({m \in db.BatchMembers : m.batch_id = id}) <= 30

\* A batch is full and a further add-members call has been turned away.
C6_Witness == last.op = "add" /\ last.msg = "capacity" /\ Cardinality({m \in db.BatchMembers : m.batch_id = last.batch_id}) = 30

\* The conflict rule of the detector on clock times: overlap, or a gap of
\* 0..59 minutes in either order.
Conflicting(a_s, a_e, b_s, b_e) == (a_s < b_e /\ b_s < a_e) \/ (0 <= b_s - a_e /\ b_s - a_e < 60) \/ (0 <= a_s - b_e /\ a_s - b_e < 60)

\* The index rows of the students of R that conflict with the slot of batch row b.
ConflictRows(b, R) == {x \in db.AssignmentsIndex : x.reg_no \in R /\ x.date = b.date /\ Conflicting(Strptime(b.start_time), Strptime(b.end_time), Strptime(x.start_time), Strptime(x.end_time))}

\* C9 as claimed (all-or-nothing on conflict): whenever a requested student has
\* a conflicting index row on the batch's date, add-members fails, returns the
\* conflicts per student, and leaves BatchMembers and AssignmentsIndex unchanged.
C9_ConflictBlocksAndReports ==
  \A b \in db.Batches : \A R \in CapRequests :
    LET r == add_students_to_batch(db, b.batch_id, b.practical_code, R, now + 1)
    IN ConflictRows(b, R) # {} =>
         /\ ~r.ret.ok
         /\ r.ret.conflicts = {Hit(x) : x \in ConflictRows(b, R)}
         /\ r.db.BatchMembers = db.BatchMembers
         /\ r.db.AssignmentsIndex = db.AssignmentsIndex

\* C9 as amended: the call fails and changes nothing; the conflicts are
\* returned unless the capacity rule has turned the request away first.
C9_ConflictBlocks ==
  \A b \in db.Batches : \A R \in CapRequests :
    LET r == add_students_to_batch(db, b.batch_id, b.practical_code, R, now + 1)
        current == Cardinality(MembersOf(b.batch_id))
    IN ConflictRows(b, R) # {} =>
         /\ ~r.ret.ok
         /\ r.db.BatchMembers = db.BatchMembers
         /\ r.db.AssignmentsIndex = db.AssignmentsIndex
         /\ IF current + Cardinality(R) > 30 THEN r.ret.conflicts = {}
            ELSE r.ret.conflicts = {Hit(x) : x \in ConflictRows(b, R)}

\* An add-members call was refused for a conflict although one of the students
\* it named has no index row at all, and that student is not in the batch.
C9_Witness ==
  /\ last.op = "add" /\ last.msg = "conflict"
  /\ \E r \in last.reg_nos : r \notin MembersOf(last.batch_id) /\ \A x \in db.AssignmentsIndex : x.reg_no # r
  /\ \E r \in last.reg_nos : \E x \in db.AssignmentsIndex : x.reg_no = r

\* C10 (capacity rejection): add-members is rejected for capacity exactly when
\* member count + number of requested students exceeds 30, and then no
\* membership row and no index row is added or changed.
C10_CapacityRejection ==
  \A b \in db.Batches : \A R \in CapRequests :
    LET r == add_students_to_batch(db, b.batch_id, b.practical_code, R, now + 1)
        current == Cardinality(MembersOf(b.batch_id))
    IN IF current + Cardinality(R) > 30
       THEN ~r.ret.ok /\ r.ret.msg = "capacity" /\ r.db.BatchMembers = db.BatchMembers /\ r.db.AssignmentsIndex = db.AssignmentsIndex
       ELSE r.ret.msg # "capacity"

\* A request for two students was turned away from a batch that has one seat left.
C10_Witness == last.op = "add" /\ last.msg = "capacity" /\ Cardinality(MembersOf(last.batch_id)) = 29 /\ Cardinality(last.reg_nos) = 2

\* C3 (index-membership agreement): for every batch, its index rows are
\* exactly its members at the batch's date, start, end and practical, one row
\* per member, in every state, the states between two commits of a call included.
C3_IndexMembershipAgreement ==
  \A b \in db.Batches :
    LET rows == {x \in db.AssignmentsIndex : x.source_batch_id = b.batch_id}
    IN /\ {<<x.reg_no, x.date, x.start_time, x.end_time, x.practical_code>> : x \in rows} = {<<m, b.date, b.start_time, b.end_time, b.practical_code>> : m \in MembersOf(b.batch_id)}
       /\ Cardinality(rows) = Cardinality(MembersOf(b.batch_id))

Tables(d) == <<d.Batches, d.BatchMembers, {[x EXCEPT !.idx_id = 0] : x \in d.AssignmentsIndex}>>

\* C8 (atomicity): after a call that stopped between its commits the store
\* shows all the row changes of the call or none of them.
C8_AllOrNothing == last.msg = "interrupted" => Tables(db) = Tables(pre.db) \/ Tables(db) = Tables(Run(pre.db, pre.f, pre.t).db)

\* C11 (duplicate add): add-members naming a student who is already a member
\* of that batch succeeds and leaves exactly one membership row and one index
\* row of that student for the batch.
C11_DuplicateAddIsNoOp ==
  \A b \in db.Batches : \A m \in MembersOf(b.batch_id) :
    LET r == add_students_to_batch(db, b.batch_id, b.practical_code, {m}, now + 1)
    IN /\ r.ret.ok
       /\ Cardinality({x \in r.db.BatchMembers : x.batch_id = b.batch_id /\ x.reg_no = m}) = 1
       /\ Cardinality({x \in r.db.AssignmentsIndex : x.source_batch_id = b.batch_id /\ x.reg_no = m}) = 1

\* The rows are kept (one membership row, one index row) whether or not the
\* call succeeds.
C11_DuplicateAddKeepsOneRow ==
  \A b \in db.Batches : \A m \in MembersOf(b.batch_id) :
    LET r == add_students_to_batch(db, b.batch_id, b.practical_code, {m}, now + 1)
    IN /\ Cardinality({x \in r.db.BatchMembers : x.batch_id = b.batch_id /\ x.reg_no = m}) = 1
       /\ Cardinality({x \in r.db.AssignmentsIndex : x.source_batch_id = b.batch_id /\ x.reg_no = m}) = 1

(***************************************************************************)
(* SpecOverlap: _overlap_or_gap_less_than applied on its own to two pairs  *)
(* of clock times around 09:00, the first start spelled padded or not.     *)
(* The offsets bring about overlap by a minute, containment, and gaps of   *)
(* 0, 1, 59, 60 and 61 minutes in both orders.                             *)
(***************************************************************************)
Offsets == {0, 60, 119, 120, 179, 180, 181, 239, 240, 241}
Clock(o) == HHMM(9, 0).mins + o

InitOverlap ==
  /\ db = init_db
  /\ now = 0
  /\ last = [op |-> "init", ok |-> TRUE, msg |-> "", batch_id |-> 0, reg_nos |-> {}]
  /\ call = Idle
  /\ pre = NoCall
  /\ \E a_s \in Offsets, a_e \in Offsets, b_s \in Offsets, b_e \in Offsets, padded \in BOOLEAN :
       /\ a_s < a_e
       /\ b_s < b_e
       /\ probe = [fn |-> "_overlap_or_gap_less_than", a_start |-> [mins |-> Clock(a_s), padded |-> padded], a_end |-> [mins |-> Clock(a_e), padded |-> TRUE],
                   b_start |-> [mins |-> Clock(b_s), padded |-> TRUE], b_end |-> [mins |-> Clock(b_e), padded |-> TRUE], done |-> FALSE, out |-> FALSE]

ApplyOverlap ==
  /\ probe.fn = "_overlap_or_gap_less_than"
  /\ ~probe.done
  /\ probe' = [probe EXCEPT !.done = TRUE, !.out = _overlap_or_gap_less_than(probe.a_start, probe.a_end, probe.b_start, probe.b_end, min_gap_minutes)]
  /\ UNCHANGED <<db, now, last, call, pre>>

NextOverlap == ApplyOverlap

SpecOverlap == InitOverlap /\ [][NextOverlap]_vars

\* The gap in minutes between the end of the interval that starts first and
\* the start of the other one.
GapOf(a_s, a_e, b_s, b_e) == IF a_s <= b_s THEN b_s - a_e ELSE a_s - b_e

\* C12 (conflict predicate): two intervals are reported as conflicting exactly
\* when they overlap strictly or the gap from the earlier one's end to the
\* later one's start is at least 0 and below 60 minutes.
C12_ConflictPredicate ==
  probe.fn = "_overlap_or_gap_less_than" /\ probe.done =>
    LET a_s == probe.a_start.mins
        a_e == probe.a_end.mins
        b_s == probe.b_start.mins
        b_e == probe.b_end.mins
        g == GapOf(a_s, a_e, b_s, b_e)
    IN probe.out <=> ((a_s < b_e /\ b_s < a_e) \/ (0 <= g /\ g < 60))

\* The predicate was applied to a first interval whose start is spelled
\* unpadded and that ends exactly 60 minutes before the second starts, and
\* reported no conflict.
C12_Witness ==
  /\ probe.fn = "_overlap_or_gap_less_than" /\ probe.done
  /\ probe.b_start.mins - probe.a_end.mins = 60
  /\ ~probe.a_start.padded
  /\ ~probe.out

(***************************************************************************)
(* SpecDetect: check_conflicts_for_students called on its own (the pages   *)
(* call it before they call a mutator) on the stores that up to            *)
(* MaxDetectClock mutator calls make of the store of SpecEdit with a third *)
(* batch on 2 Jan.                                                         *)
(* probe keeps the arguments, the store the detector was called on and     *)
(* what it returned; nothing is called after it.                           *)
(***************************************************************************)
DetectDates == {Feb1, Jan2}
DetectStarts == {HHMM(9, 0), HHMM(16, 30), HHMM(17, 0)}
DetectRegNos == {{1}, {1, 2}, {3}}
DetectExclude == {0, 1, 2}

SeedDetect == Added(Created(SeedEdit, "P1", Jan2, NoTime), 3, "P1", {2})

InitDetect == InitWith(SeedDetect)

DetectCall(f) == probe = NoProbe /\ Call(f, MaxDetectClock)

Detect(date, start_time, reg_nos, exclude_source_batch_id) ==
  /\ probe = NoProbe
  /\ call = Idle
  /\ probe' = [fn |-> "check_conflicts_for_students", date |-> date, start_time |-> start_time, end_time |-> _time_add(start_time, batch_duration_minutes),
               reg_nos |-> reg_nos, exclude_source_batch_id |-> exclude_source_batch_id, db |-> db,
               out |-> check_conflicts_for_students(db, date, start_time, _time_add(start_time, batch_duration_minutes), reg_nos, exclude_source_batch_id)]
  /\ UNCHANGED <<db, now, last, call, pre>>

NextDetect ==
  \/ \E b \in BatchIds, d \in {NoDate, Jan2}, s \in EditStarts : DetectCall(EditFrame(b, d, s, NoRoom))
  \/ \E b \in BatchIds, R \in SUBSET RegNos \ {{}} : \E p \in SelectedPractical(db, b) : DetectCall(AddFrame(b, p, R))
  \/ \E b \in BatchIds, r \in RegNos : DetectCall(RemoveFrame(b, r))
  \/ \E d \in DetectDates, s \in DetectStarts, R \in DetectRegNos, x \in DetectExclude : Detect(d, s, R, x)

SpecDetect == InitDetect /\ [][NextDetect]_vars

\* C13 (detector result): called without exclusion for (date, start, end) and
\* students R, the detector returns exactly the index rows of the students of
\* R on that date that conflict with the candidate; no other student, no other
\* date; and the store is the one it was called on.
C13_DetectorExact ==
  probe.fn = "check_conflicts_for_students" /\ probe.exclude_source_batch_id = 0 =>
    /\ probe.out = {[reg_no |-> x.reg_no, practical_code |-> x.practical_code, start_time |-> x.start_time, end_time |-> x.end_time] :
                      x \in {y \in probe.db.AssignmentsIndex : /\ y.reg_no \in probe.reg_nos
                                                               /\ y.date = probe.date
                                                               /\ Conflicting(probe.start_time.mins, probe.end_time.mins, y.start_time.mins, y.end_time.mins)}}
    /\ db = probe.db

\* The detector was called for students 1 and 2 on a date on which student 1
\* has a conflicting row and a row that does not conflict, and rows exist on
\* another date: it returned a hit for student 1 and left a row of R out.
C13_Witness ==
  /\ probe.fn = "check_conflicts_for_students" /\ probe.exclude_source_batch_id = 0
  /\ probe.reg_nos = {1, 2}
  /\ \E h \in probe.out : h.reg_no = 1
  /\ \E x \in db.AssignmentsIndex : x.reg_no \in probe.reg_nos /\ x.date = probe.date /\ Hit(x) \notin probe.out
  /\ \E x \in db.AssignmentsIndex : x.reg_no \in probe.reg_nos /\ x.date # probe.date

\* C14 (exclude-self equivalence): the detector called with
\* exclude_source_batch_id = b on the whole index returns what the detector
\* called without exclusion returns on the index without the rows of b, for
\* every batch id, candidate slot and set of students.
C14_ExcludeSelfEquivalence ==
  probe.fn = "check_conflicts_for_students" /\ probe.exclude_source_batch_id # 0 =>
    probe.out = check_conflicts_for_students(DeleteIndexOfBatch(probe.db, probe.exclude_source_batch_id),
                                             probe.date, probe.start_time, probe.end_time, probe.reg_nos, 0)

\* The detector was called with a batch excluded whose rows would have been
\* hits: without the exclusion the same call returns more.
C14_Witness ==
  /\ probe.fn = "check_conflicts_for_students" /\ probe.exclude_source_batch_id # 0
  /\ probe.out # check_conflicts_for_students(probe.db, probe.date, probe.start_time, probe.end_time, probe.reg_nos, 0)
  /\ probe.out # {}

(***************************************************************************)
(* SpecLate: create-batch and edit-timing with evening starts (the page    *)
(* offers every hour up to 11 PM).  Student 1 sits P1 at 22:00 and P2 at   *)
(* 09:00 on 1 Feb.                                                         *)
(***************************************************************************)
LateStarts == {NoTime, HHMM(20, 0), HHMM(21, 0), HHMM(21, 15), HHMM(22, 0)}

SeedLate == Added(Added(Created(Created(init_db, "P1", Feb1, HHMM(22, 0)), "P2", Feb1, NoTime), 1, "P1", {1}), 2, "P2", {1})

InitLate == InitWith(SeedLate)

LateCreate(practical_code, date, start_time) == Call(CreateFrame(practical_code, date, start_time, NoRoom), MaxLateClock)

LateEdit(batch_id, date, start_time) == Call(EditFrame(batch_id, date, start_time, NoRoom), MaxLateClock)

LateAdd(batch_id, practical_code, reg_nos) == Call(AddFrame(batch_id, practical_code, reg_nos), MaxLateClock)

NextLate ==
  \/ \E p \in Practicals, s \in LateStarts : LateCreate(p, Feb1, s)
  \/ \E b \in BatchIds, d \in {NoDate, Jan2}, s \in LateStarts : LateEdit(b, d, s)
  \/ \E b \in BatchIds, R \in SUBSET RegNos \ {{}} : \E p \in SelectedPractical(db, b) : LateAdd(b, p, R)

SpecLate == InitLate /\ [][NextLate]_vars

\* The index rows from other batches that a member of batch row b has on date
\* d and that conflict with a sitting of batch_duration_minutes from start s.
EditBlockers(b, d, s) ==
  {x \in db.AssignmentsIndex : /\ x.reg_no \in MembersOf(b.batch_id)
                               /\ x.source_batch_id # b.batch_id
                               /\ x.date = d
                               /\ Conflicting(Strptime(s), Strptime(s) + 180, StartOf(x), EndOf(x))}

\* C15 (edit-timing acceptance): edit-timing of an existing batch to a date and
\* a valid start is rejected with a conflict exactly when a current member has
\* an index row from another batch on that date that conflicts with
\* [start, start + 180 min).
C15_EditAcceptance ==
  \A b \in db.Batches : \A d \in {Feb1, Jan2} : \A s \in (LateStarts \cup EditStarts) \ {NoTime} :
    LET r == update_batch_times(db, b.batch_id, d, s, NoRoom, now + 1)
    IN (r.ret.msg = "conflict") <=> (EditBlockers(b, d, s) # {})

\* The same with every clock time taken as written, an end_time that reads
\* earlier than its start_time included.
C15_EditAcceptanceAsWritten ==
  \A b \in db.Batches : \A d \in {Feb1, Jan2} : \A s \in (LateStarts \cup EditStarts) \ {NoTime} :
    LET r == update_batch_times(db, b.batch_id, d, s, NoRoom, now + 1)
        blockers == {x \in db.AssignmentsIndex : /\ x.reg_no \in MembersOf(b.batch_id)
                                                 /\ x.source_batch_id # b.batch_id
                                                 /\ x.date = d
                                                 /\ Conflicting(Strptime(s), Strptime(_time_add(s, 180)), Strptime(x.start_time), Strptime(x.end_time))}
    IN (r.ret.msg = "conflict") <=> (blockers # {})

\* The batches of a practical in store d carry the numbers 1..N, each once, in
\* the order of their (date, start).
Renumbered(d, practical_code) ==
  LET rows == {b \in d.Batches : b.practical_code = practical_code}
  IN /\ {b.batch_no : b \in rows} = 1..Cardinality(rows)
     /\ \A a, b \in rows : (a.batch_id # b.batch_id) => (a.batch_no # b.batch_no)
     /\ \A a, b \in rows : Earlier(a, b) => (a.batch_no < b.batch_no)

\* What a successful edit-timing of batch row b to (date, start) leaves in
\* store d, the end of the sitting being the clock value end_mins.
EditEffect(d, b, date, start, end_mins) ==
  LET after == CHOOSE x \in d.Batches : x.batch_id = b.batch_id
      rows == {x \in d.AssignmentsIndex : x.source_batch_id = b.batch_id}
  IN /\ Cardinality({x \in d.Batches : x.batch_id = b.batch_id}) = 1
     /\ after.date = date /\ after.start_time = start /\ after.end_time.mins = end_mins
     /\ {m \in d.BatchMembers : m.batch_id = b.batch_id} = {m \in db.BatchMembers : m.batch_id = b.batch_id}
     /\ \A m \in MembersOf(b.batch_id) : Cardinality({x \in rows : x.reg_no = m}) = 1
     /\ \A x \in rows : x.reg_no \in MembersOf(b.batch_id) /\ x.date = date /\ x.start_time = start /\ x.end_time = after.end_time
     /\ (date # b.date \/ start # b.start_time) => \A x \in rows : ~(x.date = b.date /\ x.start_time = b.start_time)
     /\ Renumbered(d, b.practical_code)

EffectDates == {Feb1, Jan2}
EffectStarts == (LateStarts \cup EditStarts) \ {NoTime}

\* C16 (edit-timing success effect): after a successful edit-timing of batch b
\* to (date, start) the batch row has that date and start and the end
\* start + 180 min, the membership is as before, every member has exactly one
\* index row of b and it carries the new slot, none carries the old slot, and
\* the practical's batches are renumbered.
C16_EditSuccessEffect ==
  \A b \in db.Batches : \A d \in EffectDates : \A s \in EffectStarts :
    LET r == update_batch_times(db, b.batch_id, d, s, NoRoom, now + 1)
    IN r.ret.ok => EditEffect(r.db, b, d, s, s.mins + 180)

\* The same with the end read as the clock time 180 minutes after the start.
C16_EditSuccessEffectClock ==
  \A b \in db.Batches : \A d \in EffectDates : \A s \in EffectStarts :
    LET r == update_batch_times(db, b.batch_id, d, s, NoRoom, now + 1)
    IN r.ret.ok => EditEffect(r.db, b, d, s, (s.mins + 180) % 1440)

(***************************************************************************)
(* SpecFault: SpecSteps with a storage write that raises in the update     *)
(* step of edit-timing (sqlite3.OperationalError: the disk is full, the    *)
(* database is locked), after the conflict check has passed.  The          *)
(* re-insert of the snapshot then goes through or raises as well.          *)
(***************************************************************************)
FailUpdate(restored) ==
  /\ call # Idle
  /\ call.op = "edit" /\ call.pc = 2
  /\ Step(db, call, now).call # Idle
  /\ LET r == update_batch_times_2_failed(db, call, restored)
     IN /\ db' = r.db
        /\ call' = r.call
        /\ last' = Result(pre.f, r)
  /\ UNCHANGED <<now, pre, probe>>

NextFault ==
  \/ NextSteps
  \/ \E restored \in BOOLEAN : FailUpdate(restored)

SpecFault == InitSteps /\ [][NextFault]_vars

\* C17 (restoration on failure): when edit-timing returns its error after a
\* write of the update step failed, the Batches rows are as before the call and
\* the index rows of the batch are the rows it had before the call.
C17_RestoredAfterFailure ==
  last.op = "edit" /\ last.msg = "failed" =>
    /\ db.Batches = pre.db.Batches
    /\ Content({x \in db.AssignmentsIndex : x.source_batch_id = last.batch_id}) = Content({x \in pre.db.AssignmentsIndex : x.source_batch_id = last.batch_id})

\* After such a failure the Batches rows are as before, and the index rows of
\* the batch are the rows it had or none at all.
C17_RestoredOrLost ==
  last.op = "edit" /\ last.msg = "failed" =>
    /\ db.Batches = pre.db.Batches
    /\ \/ Content({x \in db.AssignmentsIndex : x.source_batch_id = last.batch_id}) = Content({x \in pre.db.AssignmentsIndex : x.source_batch_id = last.batch_id})
       \/ {x \in db.AssignmentsIndex : x.source_batch_id = last.batch_id} = {}

\* C18 (end-time invariant): every batch ends 180 minutes after it starts, the
\* end being later than the start also when the sum passes midnight.
C18_EndTime == \A b \in db.Batches : Strptime(b.end_time) = Strptime(b.start_time) + 180

\* The stored end is the clock time 180 minutes after the start, read around
\* midnight.
C18_EndTimeClock == \A b \in db.Batches : Strptime(b.end_time) = (Strptime(b.start_time) + 180) % 1440 /\ b.end_time.padded

\* The start that create-batch derives for a practical and a date in the
\* current store: the latest end_time of the practical's batches on that date as
\* the clock reads, 09:00 when there is none.
DefaultStart(practical_code, date) ==
  LET ends == {Strptime(b.end_time) : b \in {x \in db.Batches : x.practical_code = practical_code /\ x.date = date}}
  IN IF ends = {} THEN 540 ELSE CHOOSE e \in ends : \A o \in ends : o <= e

\* C19 (default start): a permitted create-batch without a start time makes a
\* batch that starts at the latest end_time already scheduled for the practical
\* on that date, or at 09:00, and that ends 180 minutes after its start.
C19_DefaultStart ==
  \A p \in Practicals : \A d \in {Feb1, Jan2} :
    LET r == add_batch_autosequence(db, p, d, NoTime, NoRoom, now + 1)
    IN r.ret.ok =>
         \E b \in r.db.Batches :
           /\ b.batch_id = r.ret.batch_id /\ b.practical_code = p /\ b.date = d
           /\ Strptime(b.start_time) = DefaultStart(p, d)
           /\ Strptime(b.end_time) = Strptime(b.start_time) + 180

\* The same with the end read as the clock time 180 minutes after the start.
C19_DefaultStartClock ==
  \A p \in Practicals : \A d \in {Feb1, Jan2} :
    LET r == add_batch_autosequence(db, p, d, NoTime, NoRoom, now + 1)
    IN r.ret.ok =>
         \E b \in r.db.Batches :
           /\ b.batch_id = r.ret.batch_id /\ b.practical_code = p /\ b.date = d
           /\ Strptime(b.start_time) = DefaultStart(p, d)
           /\ Strptime(b.end_time) = (Strptime(b.start_time) + 180) % 1440

ReplaceStarts == {HHMM(8, 0), HHMM(9, 0), HMM(9, 0), HHMM(13, 0), HHMM(16, 30), HHMM(17, 0)}

\* What a create-batch that returned batch_id leaves in store d of the batches
\* old that the practical had at (date, start) before: they are gone with their
\* membership and index rows, and the new batch is the only one of the
\* practical at that date and start, without members.
Replaced(d, old, practical_code, date, start, batch_id) ==
  /\ \A o \in old : /\ \A b \in d.Batches : b.batch_id # o.batch_id
                    /\ \A m \in d.BatchMembers : m.batch_id # o.batch_id
                    /\ \A x \in d.AssignmentsIndex : x.source_batch_id # o.batch_id
  /\ {b.batch_id : b \in {x \in d.Batches : x.practical_code = practical_code /\ x.date = date /\ Strptime(x.start_time) = Strptime(start)}} = {batch_id}
  /\ \A m \in d.BatchMembers : m.batch_id # batch_id
  /\ \A x \in d.AssignmentsIndex : x.source_batch_id # batch_id

\* C20 (replacement): a permitted create-batch at a (practical, date, start) at
\* which a batch exists deletes that batch with its membership and index rows;
\* afterwards the returned batch is the only one of the practical at that date
\* and start, and it has no members.
C20_Replacement ==
  \A p \in Practicals : \A d \in {Feb1, Jan2} : \A s \in ReplaceStarts :
    LET old == {b \in db.Batches : b.practical_code = p /\ b.date = d /\ Strptime(b.start_time) = Strptime(s)}
        r == add_batch_autosequence(db, p, d, s, NoRoom, now + 1)
    IN (old # {} /\ r.ret.ok) => Replaced(r.db, old, p, d, s, r.ret.batch_id)

\* The same for the batches whose stored start_time is spelled as the start
\* that is passed.
C20_ReplacementSameSpelling ==
  \A p \in Practicals : \A d \in {Feb1, Jan2} : \A s \in ReplaceStarts :
    LET old == {b \in db.Batches : b.practical_code = p /\ b.date = d /\ b.start_time = s}
        r == add_batch_autosequence(db, p, d, s, NoRoom, now + 1)
    IN (old # {} /\ r.ret.ok) =>
         /\ \A o \in old : /\ \A b \in r.db.Batches : b.batch_id # o.batch_id
                           /\ \A m \in r.db.BatchMembers : m.batch_id # o.batch_id
                           /\ \A x \in r.db.AssignmentsIndex : x.source_batch_id # o.batch_id
         /\ {b.batch_id : b \in {x \in r.db.Batches : x.practical_code = p /\ x.date = d /\ x.start_time = s}} = {r.ret.batch_id}
         /\ \A m \in r.db.BatchMembers : m.batch_id # r.ret.batch_id
         /\ \A x \in r.db.AssignmentsIndex : x.source_batch_id # r.ret.batch_id

(***************************************************************************)
(* SpecRules: the rule engine.  P1 has 60 candidates, P2 has 120, PX is    *)
(* not in the catalog (total 0).  On 1 Feb P1 and PX have three batches,   *)
(* P2 has two; edit-timing can bring a fourth batch onto a date.  The rule  *)
(* engine is also applied on its own, with an intended batch number that   *)
(* need not be the count + 1 that create-batch passes.                     *)
(***************************************************************************)
RulePracticals == {"P1", "P2", "PX"}
RuleDates == {Feb1, Jan2}
SeedRules == Created(Created(Created(Created(Created(SeedDay, "P2", Feb1, NoTime), "P2", Feb1, NoTime), "PX", Feb1, NoTime), "PX", Feb1, NoTime), "PX", Feb1, NoTime)

InitRules == InitWith(SeedRules)

RulesCall(f) == probe = NoProbe /\ Call(f, MaxRulesClock)

RulesProbe(practical_code, date, intended_batch_no) ==
  /\ probe = NoProbe
  /\ call = Idle
  /\ probe' = [fn |-> "ensure_rules_before_batch", practical_code |-> practical_code, date |-> date, intended_batch_no |-> intended_batch_no,
               out |-> ensure_rules_before_batch(db, practical_code, date, intended_batch_no)]
  /\ UNCHANGED <<db, now, last, call, pre>>

NextRules ==
  \/ \E p \in RulePracticals, d \in RuleDates : RulesCall(CreateFrame(p, d, NoTime, NoRoom))
  \/ \E b \in BatchIds, d \in RuleDates : RulesCall(EditFrame(b, d, NoTime, NoRoom))
  \/ \E b \in BatchIds : RulesCall(DeleteFrame(b))
  \/ \E p \in RulePracticals, d \in RuleDates, i \in {3, 4} : RulesProbe(p, d, i)

SpecRules == InitRules /\ [][NextRules]_vars

\* The number of batches a practical has on a date.
OnDate(practical_code, date) == Cardinality({b \in db.Batches : b.practical_code = practical_code /\ b.date = date})

\* C21 (rule rejection): create-batch for a practical and a date is rejected,
\* with a reason, exactly when the practical has 3 or more batches on that
\* date, whatever its candidate total; a rejected create changes no row.
C21_RuleRejection ==
  \A p \in RulePracticals : \A d \in RuleDates :
    LET r == add_batch_autosequence(db, p, d, NoTime, NoRoom, now + 1)
    IN /\ (~r.ret.ok) <=> (OnDate(p, d) >= 3)
       /\ (~r.ret.ok) => /\ r.ret.msg \in {"le90_max3", "already3", "max3"}
                         /\ r.db.Batches = db.Batches /\ r.db.BatchMembers = db.BatchMembers /\ r.db.AssignmentsIndex = db.AssignmentsIndex

\* A create-batch for the practical of 120 candidates was rejected on a date
\* that holds three of its batches, while the practical that is not in the
\* catalog holds three batches on a date as well.
C21_Witness ==
  /\ last.op = "create" /\ ~last.ok /\ last.msg = "max3"
  /\ \E d \in RuleDates : OnDate("P2", d) = 3
  /\ \E d \in RuleDates : OnDate("PX", d) = 3

\* C22 (denial reason): a create-batch that is rejected on a date holding 3
\* batches carries the reason for up to 90 candidates when the practical's total
\* is at most 90 and the general reason when it is above 90; the rule engine
\* gives its third reason (already 3 batches on this day) exactly for a total
\* of at most 90 with an intended batch number of at most 3 on a date that
\* holds 3 batches or more.
C22_DenialReason ==
  /\ \A p \in RulePracticals : \A d \in RuleDates :
       LET r == add_batch_autosequence(db, p, d, NoTime, NoRoom, now + 1)
           total == IF p = "P1" THEN 60 ELSE IF p = "P2" THEN 120 ELSE 0
       IN OnDate(p, d) >= 3 => r.ret.msg = (IF total <= 90 THEN "le90_max3" ELSE "max3")
  /\ probe.fn = "ensure_rules_before_batch" =>
       LET total == IF probe.practical_code = "P1" THEN 60 ELSE IF probe.practical_code = "P2" THEN 120 ELSE 0
       IN (probe.out.msg = "already3") <=> (total <= 90 /\ probe.intended_batch_no <= 3 /\ OnDate(probe.practical_code, probe.date) >= 3)

\* The rule engine was asked about a third batch on a date that holds three
\* batches of a practical of up to 90 candidates and gave its third reason,
\* after a create-batch had been rejected.
C22_Witness ==
  /\ probe.fn = "ensure_rules_before_batch" /\ probe.out.msg = "already3" /\ probe.intended_batch_no = 3
  /\ last.op = "create" /\ ~last.ok /\ last.msg = "le90_max3"

(***************************************************************************)
(* SpecConfig: the rule engine under other values of                       *)
(* RULES["max_batches_per_day_per_practical"], applied as create-batch     *)
(* applies it (intended batch number = count on the date + 1) to a         *)
(* candidate total and a count.                                            *)
(***************************************************************************)
ConfigMax == {2, 3, 4, 5}
ConfigTotals == {0, 60, 90, 91, 120}
InitConfig ==
  /\ db = init_db
  /\ now = 0
  /\ last = [op |-> "init", ok |-> TRUE, msg |-> "", batch_id |-> 0, reg_nos |-> {}]
  /\ call = Idle
  /\ pre = NoCall
  /\ \E m \in ConfigMax, total \in ConfigTotals, n \in 0..5 :
       probe = [fn |-> "ensure_rules_with", max_per_day |-> m, total |-> total, n |-> n, done |-> FALSE, out |-> [ok |-> TRUE, msg |-> ""]]

ApplyRules ==
  /\ probe.fn = "ensure_rules_with"
  /\ ~probe.done
  /\ probe' = [probe EXCEPT !.done = TRUE, !.out = ensure_rules_with(probe.max_per_day, probe.total, probe.n, probe.n + 1)]
  /\ UNCHANGED <<db, now, last, call, pre>>

NextConfig == ApplyRules

SpecConfig == InitConfig /\ [][NextConfig]_vars

\* C23 (configurable limit): for every configured maximum M of batches per day
\* and every candidate total, create-batch is permitted exactly when the date
\* holds fewer than M batches of the practical.
C23_ConfiguredMax == probe.fn = "ensure_rules_with" /\ probe.done => (probe.out.ok <=> probe.n < probe.max_per_day)

\* The configured maximum decides for totals above 90, and for every total
\* while it is at most 3.
C23_ConfiguredMaxAbove90 ==
  probe.fn = "ensure_rules_with" /\ probe.done /\ (probe.total > 90 \/ probe.max_per_day <= 3) => (probe.out.ok <=> probe.n < probe.max_per_day)

\* The call result r is a failure that left the three tables as they are.
Refused(r) == ~r.ret.ok /\ r.db.Batches = db.Batches /\ r.db.BatchMembers = db.BatchMembers /\ r.db.AssignmentsIndex = db.AssignmentsIndex

\* A batch id that no batch has.
NoSuchBatch == db.seq_Batches + 1

\* C24 (validation errors): a malformed start time (create-batch, edit-timing),
\* a batch id that does not exist (edit-timing, delete-batch, add-members) and a
\* practical that is not in the catalog (create-batch, add-members) each give a
\* failure that changes no row.
C24_ValidationRefused ==
  /\ \A p \in RulePracticals : \A d \in RuleDates : Refused(add_batch_autosequence(db, p, d, BadTime, NoRoom, now + 1))
  /\ \A b \in db.Batches : Refused(update_batch_times(db, b.batch_id, NoDate, BadTime, NoRoom, now + 1))
  /\ Refused(update_batch_times(db, NoSuchBatch, Jan2, HHMM(13, 0), NoRoom, now + 1))
  /\ Refused(delete_batch(db, NoSuchBatch, now + 1))
  /\ Refused(add_students_to_batch(db, NoSuchBatch, "P1", {1}, now + 1))
  /\ \A d \in RuleDates : Refused(add_batch_autosequence(db, "PX", d, NoTime, NoRoom, now + 1))
  /\ \A b \in db.Batches : Refused(add_students_to_batch(db, b.batch_id, "PX", {1}, now + 1))

\* The part of it that is about edit-timing with a malformed start and about
\* batch ids that do not exist.
C24_EditStartAndBatchIdRefused ==
  /\ \A b \in db.Batches : Refused(update_batch_times(db, b.batch_id, NoDate, BadTime, NoRoom, now + 1))
  /\ Refused(update_batch_times(db, NoSuchBatch, Jan2, HHMM(13, 0), NoRoom, now + 1))
  /\ Refused(delete_batch(db, NoSuchBatch, now + 1))
  /\ Refused(add_students_to_batch(db, NoSuchBatch, "P1", {1}, now + 1))

\* A batch row without its two ordinals.
Slot(b) == [b EXCEPT !.batch_no = 0, !.day_index = 0]

\* What delete-batch of the existing batch row b leaves in store d: nothing
\* of b, every other batch with its slot, members and index rows, and the
\* batches of b's practical numbered 1..N in the order they had.
DeleteEffect(d, b) ==
  LET rest == {x \in db.Batches : x.batch_id # b.batch_id}
      mine == {x \in d.Batches : x.practical_code = b.practical_code}
  IN /\ \A x \in d.Batches : x.batch_id # b.batch_id
     /\ \A m \in d.BatchMembers : m.batch_id # b.batch_id
     /\ \A x \in d.AssignmentsIndex : x.source_batch_id # b.batch_id
     /\ {Slot(x) : x \in d.Batches} = {Slot(x) : x \in rest}
     /\ Cardinality(d.Batches) = Cardinality(rest)
     /\ d.BatchMembers = {m \in db.BatchMembers : m.batch_id # b.batch_id}
     /\ d.AssignmentsIndex = {x \in db.AssignmentsIndex : x.source_batch_id # b.batch_id}
     /\ {x.batch_no : x \in mine} = 1..Cardinality(mine)
     /\ \A x, y \in mine : \A x0, y0 \in rest : (x0.batch_id = x.batch_id /\ y0.batch_id = y.batch_id /\ x0.batch_no < y0.batch_no) => x.batch_no < y.batch_no
     /\ \A x \in d.Batches : x.practical_code # b.practical_code => x \in db.Batches

\* C25 (delete-batch effect): delete-batch of an existing batch b succeeds and
\* leaves no batch, membership or index row of b, the remaining batches of
\* b's practical renumbered 1..N, and every other batch's membership and
\* index rows as they were; delete-batch of an id that no batch has fails and
\* changes nothing.
C25_DeleteEffect ==
  \A id \in BatchIds :
    LET r == delete_batch(db, id, now + 1)
        found == {b \in db.Batches : b.batch_id = id}
    IN IF found = {} THEN ~r.ret.ok /\ r.db = db
       ELSE r.ret.ok /\ \A b \in found : DeleteEffect(r.db, b)

\* A delete has removed the first batch of a practical: the batch created
\* after it at the default start 12:00 is now number 1 and has its members.
C25_Witness ==
  /\ last.op = "delete" /\ last.ok
  /\ \E b \in db.Batches : b.batch_id > last.batch_id /\ b.start_time = HHMM(12, 0) /\ b.batch_no = 1 /\ MembersOf(b.batch_id) # {}

\* C26 (remove-member is total and idempotent): remove-member(b, r) always
\* succeeds; afterwards no membership row and no index row is of (b, r), every
\* other membership and index row and every batch row is as before; a second
\* call leaves the store as the first did, whether or not the pair or the
\* batch ever existed.
C26_RemoveTotalIdempotent ==
  \A id \in BatchIds : \A reg \in RegNos :
    LET r == remove_student_from_batch(db, id, reg, now + 1)
        again == remove_student_from_batch(r.db, id, reg, now + 2)
    IN /\ r.ret.ok /\ again.ret.ok
       /\ r.db.BatchMembers = {m \in db.BatchMembers : ~(m.batch_id = id /\ m.reg_no = reg)}
       /\ r.db.AssignmentsIndex = {x \in db.AssignmentsIndex : ~(x.source_batch_id = id /\ x.reg_no = reg)}
       /\ r.db.Batches = db.Batches
       /\ again.db = r.db

\* Two students were added to the only batch and one of them has been removed:
\* the other's membership and index row are still there.
C26_Witness ==
  /\ last.op = "remove" /\ last.ok /\ db.seq_Batches = 1 /\ db.seq_AssignmentsIndex = 2
  /\ Cardinality(db.AssignmentsIndex) = 1 /\ Cardinality(db.BatchMembers) = 1
  /\ \E x \in db.AssignmentsIndex : x.source_batch_id = last.batch_id /\ x.reg_no \in MembersOf(last.batch_id)

(***************************************************************************)
(* SpecDays: create, edit-timing and delete over three dates whose string  *)
(* order (01.02.2026, 02.01.2026, 02.02.2026) is not their calendar order, *)
(* from a store where P1 has two batches on 01.02.2026.                    *)
(***************************************************************************)
MaxDayClock == 3
Feb2 == <<2, 2, 2026>>
DayDates == {Feb1, Jan2, Feb2}

InitDays == InitWith(Created(Created(init_db, "P1", Feb1, NoTime), "P1", Feb1, NoTime))

NextDays ==
  \/ \E p \in Practicals, d \in DayDates : Call(CreateFrame(p, d, NoTime, NoRoom), MaxDayClock)
  \/ \E b \in BatchIds, d \in DayDates : Call(EditFrame(b, d, NoTime, NoRoom), MaxDayClock)
  \/ \E b \in BatchIds : Call(DeleteFrame(b), MaxDayClock)

SpecDays == InitDays /\ [][NextDays]_vars

\* The 1-based rank of date among the dates on which the practical has a
\* batch, by the calendar.
DayRank(practical_code, date) == Cardinality({e \in {b.date : b \in BatchesOf(practical_code)} : DateKey(e) <= DateKey(date)})

\* Deleting the second of the practical's two batches, both on 01.02.2026, and
\* creating a batch on the next day: the survivor is batch 1 of day 1, the new
\* batch is batch 2 of day 2.
DeleteThenNextDay(practical_code) ==
  LET rows == BatchesOf(practical_code)
  IN (Cardinality(rows) = 2 /\ \A b \in rows : b.date = Feb1) =>
       \A a, b \in rows : a.batch_no = 1 /\ b.batch_no = 2 =>
         LET deleted == delete_batch(db, b.batch_id, now + 1)
             created == add_batch_autosequence(deleted.db, practical_code, Feb2, NoTime, NoRoom, now + 2)
             after == {x \in created.db.Batches : x.practical_code = practical_code}
         IN /\ deleted.ret.ok /\ created.ret.ok
            /\ Cardinality(after) = 2
            /\ \E x \in after : x.batch_id = a.batch_id /\ x.batch_no = 1 /\ x.day_index = 1
            /\ \E x \in after : x.batch_id = created.ret.batch_id /\ x.date = Feb2 /\ x.batch_no = 2 /\ x.day_index = 2

\* C27 (day-index invariant): after any sequence of calls every batch's
\* day_index is the 1-based rank of its date among the distinct dates of its
\* practical, by calendar date; and the delete-then-next-day example comes
\* out as batch 1 of day 1 and batch 2 of day 2.
C27_DayIndex ==
  /\ \A b \in db.Batches : b.day_index = DayRank(b.practical_code, b.date)
  /\ \A p \in Practicals : DeleteThenNextDay(p)

\* A practical has a batch on 01.02.2026 and a batch created after it on
\* 02.01.2026: the later string and the later insertion is day 1.
C27_Witness ==
  \E a, b \in db.Batches :
    /\ a.practical_code = b.practical_code /\ a.batch_id < b.batch_id
    /\ a.date = Feb1 /\ b.date = Jan2 /\ b.day_index = 1 /\ a.day_index = 2

(***************************************************************************)
(* SpecCaller: add_students_to_batch called as the function allows, with   *)
(* any practical code beside the batch id, then edit-timing and remove.    *)
(***************************************************************************)
MaxCallerClock == 3
InitCaller == InitWith(Created(Created(init_db, "P1", Feb1, NoTime), "P2", Feb1, HHMM(13, 0)))

NextCaller ==
  \/ \E b \in BatchIds, p \in Practicals, R \in SUBSET RegNos \ {{}} : Call(AddFrame(b, p, R), MaxCallerClock)
  \/ \E b \in BatchIds, s \in {NoTime, HHMM(13, 0)} : Call(EditFrame(b, NoDate, s, NoRoom), MaxCallerClock)
  \/ \E b \in BatchIds, r \in RegNos : Call(RemoveFrame(b, r), MaxCallerClock)

SpecCaller == InitCaller /\ [][NextCaller]_vars

\* C28 (denormalized practical code): every membership row and every index
\* row carries the practical code of the batch it belongs to, whatever code
\* add-members was called with, and still after a later edit-timing.
C28_DenormalizedPractical ==
  \A b \in db.Batches :
    /\ \A m \in db.BatchMembers : m.batch_id = b.batch_id => m.practical_code = b.practical_code
    /\ \A x \in db.AssignmentsIndex : x.source_batch_id = b.batch_id => x.practical_code = b.practical_code

\* The index rows alone, after a successful edit-timing of their batch.
C28_IndexAfterEdit ==
  (last.op = "edit" /\ last.ok) =>
    \A b \in db.Batches : \A x \in db.AssignmentsIndex :
      (b.batch_id = last.batch_id /\ x.source_batch_id = b.batch_id) => x.practical_code = b.practical_code

\* A stored time string is HH:MM with two digits each, 00:00 to 23:59.
ZeroPadded(s) == s.padded /\ 0 <= s.mins /\ s.mins < 1440

\* C29 (stored time format): every start_time and end_time stored in Batches
\* and AssignmentsIndex is a zero-padded 24-hour HH:MM string, also when
\* create-batch or edit-timing was given an accepted unpadded start such as 9:00.
C29_StoredTimeFormat ==
  /\ \A b \in db.Batches : ZeroPadded(b.start_time) /\ ZeroPadded(b.end_time)
  /\ \A x \in db.AssignmentsIndex : ZeroPadded(x.start_time) /\ ZeroPadded(x.end_time)

\* The end times alone.
C29_StoredEndFormat ==
  /\ \A b \in db.Batches : ZeroPadded(b.end_time)
  /\ \A x \in db.AssignmentsIndex : ZeroPadded(x.end_time)

\* The batch ids in use.
IdsInUse == {b.batch_id : b \in db.Batches}

\* Every membership row and every index row is of a batch that exists, and no
\* batch has an id beyond the last one handed out.
NoOrphans ==
  /\ \A m \in db.BatchMembers : m.batch_id \in IdsInUse
  /\ \A x \in db.AssignmentsIndex : x.source_batch_id \in IdsInUse
  /\ \A id \in IdsInUse : id <= db.seq_Batches

\* A step hands out only ids above every id handed out before it.
FreshIds ==
  /\ db'.seq_Batches >= db.seq_Batches
  /\ \A b \in db'.Batches : b.batch_id \notin IdsInUse => b.batch_id > db.seq_Batches

\* C30 (ownership and referential integrity): in every reachable state every
\* membership row and every index row refers to a batch that exists, also
\* after delete-batch and after a create-batch that replaced a batch; and an
\* id that a batch once had is never given to a later batch.
C30_ReferentialIntegrity == []NoOrphans /\ [][FreshIds]_vars

\* A batch that had index rows is gone, by delete-batch or by replacement, and
\* a batch was created after it: the new batch has the next id and no rows.
C30_Witness ==
  /\ last.op = "create" /\ last.ok /\ last.batch_id = 2 /\ db.seq_Batches = 2
  /\ IdsInUse = {2} /\ db.seq_AssignmentsIndex > 0 /\ db.AssignmentsIndex = {} /\ db.BatchMembers = {}

\* No two distinct batches of one practical have the same (date, start_time).
NoDuplicateSlots == \A a, b \in db.Batches : (a.batch_id # b.batch_id /\ a.practical_code = b.practical_code) => ~(a.date = b.date /\ a.start_time = b.start_time)

\* C31 (no duplicate slots): in every state reachable by create-batch,
\* edit-timing and delete-batch no two distinct batches of the same practical
\* have the same (date, start_time); edit-timing never moves a batch onto a
\* slot that another batch of its practical occupies.
C31_NoDuplicateSlots == NoDuplicateSlots

\* Every call but edit-timing keeps the slots distinct.
C31_NoDuplicateSlotsButEdit == [][(NoDuplicateSlots /\ last'.op # "edit") => NoDuplicateSlots']_vars

(***************************************************************************)
(* SpecFull: create, delete and add-members from a store where P1 has its  *)
(* three batches of 01.02.2026 (09:00, 12:00, 15:00) with student 1 in the *)
(* first one, and P2 has one batch at 09:00 with student 2.  Creates name  *)
(* occupied and free starts.                                               *)
(***************************************************************************)
MaxFullClock == 2

InitFull == InitWith(Added(Created(Added(SeedDay, 1, "P1", {1}), "P2", Feb1, NoTime), 4, "P2", {2}))

NextFull ==
  \/ \E p \in Practicals, s \in {NoTime, HHMM(9, 0), HHMM(12, 0), HHMM(18, 0)} : Call(CreateFrame(p, Feb1, s, NoRoom), MaxFullClock)
  \/ \E b \in BatchIds : Call(DeleteFrame(b), MaxFullClock)
  \/ \E b \in BatchIds, R \in SUBSET RegNos \ {{}} : \E p \in SelectedPractical(db, b) : Call(AddFrame(b, p, R), MaxFullClock)

SpecFull == InitFull /\ [][NextFull]_vars

\* C32 (rule check precedes replacement): a create-batch that names the
\* (practical, date, start) of an existing batch on a date that holds 3
\* batches of the practical is rejected, and the batch, its members and its
\* index rows stay as they are; a create-batch that returns a failure has
\* deleted no row.
C32_RuleBeforeReplacement ==
  /\ \A b \in db.Batches : count_batches_on_day(db, b.practical_code, b.date) = 3 =>
       Refused(add_batch_autosequence(db, b.practical_code, b.date, b.start_time, NoRoom, now + 1))
  /\ \A p \in Practicals : \A s \in {NoTime, HHMM(9, 0), HHMM(12, 0), HHMM(18, 0)} :
       LET r == add_batch_autosequence(db, p, Feb1, s, NoRoom, now + 1)
       IN ~r.ret.ok => r.db = db

\* A create-batch has been refused on a day that holds 3 batches, one of
\* them with a member and an index row.
C32_Witness ==
  /\ last.op = "create" /\ ~last.ok
  /\ \E b \in db.Batches : count_batches_on_day(db, b.practical_code, b.date) = 3 /\ MembersOf(b.batch_id) # {}
                           /\ \E x \in db.AssignmentsIndex : x.source_batch_id = b.batch_id

\* C33 (edit-timing leaves omitted fields unchanged): a successful
\* edit-timing that omits the date keeps the batch's date, one that omits the
\* start keeps its start and its end, one that omits the room keeps its room
\* label; status, practical_code and batch_id are never changed by it.
C33_OmittedFieldsKept ==
  \A b \in db.Batches : \A d \in {NoDate, Jan2} : \A s \in {NoTime, HHMM(16, 30)} : \A room \in {NoRoom, "Hall"} :
    LET r == update_batch_times(db, b.batch_id, d, s, room, now + 1)
        rows == {a \in r.db.Batches : a.batch_id = b.batch_id}
    IN r.ret.ok =>
         /\ Cardinality(rows) = 1
         /\ {a.batch_id : a \in r.db.Batches} = {a.batch_id : a \in db.Batches}
         /\ \A a \in rows :
              /\ d = NoDate => a.date = b.date
              /\ s = NoTime => a.start_time = b.start_time /\ a.end_time = b.end_time
              /\ room = NoRoom => a.room_lab = b.room_lab
              /\ a.status = b.status /\ a.practical_code = b.practical_code

\* Batch 2 has been edited with success and is still on 01.02.2026 at 09:00,
\* neither of which an edit can set here, and it has the room an edit gave it.
C33_Witness ==
  /\ last.op = "edit" /\ last.ok /\ last.batch_id = 2
  /\ \E b \in db.Batches : b.batch_id = 2 /\ b.date = Feb1 /\ b.start_time = HHMM(9, 0) /\ b.end_time = HHMM(12, 0) /\ b.room_lab = "Lab"

\* A call on practical p that may write the rows of the batches in own has
\* left in store d every batch row of the other practicals and every
\* membership and index row of the other batches as they were.
FrameKept(d, p, own) ==
  /\ {b \in d.Batches : b.practical_code # p} = {b \in db.Batches : b.practical_code # p}
  /\ {m \in d.BatchMembers : m.batch_id \notin own} = {m \in db.BatchMembers : m.batch_id \notin own}
  /\ {x \in d.AssignmentsIndex : x.source_batch_id \notin own} = {x \in db.AssignmentsIndex : x.source_batch_id \notin own}

\* The batches of store d before the call that the created row took the slot of.
ReplacedBy(d, batch_id) == {b.batch_id : b \in {c \in db.Batches : \E n \in d.Batches : n.batch_id = batch_id /\ c.practical_code = n.practical_code /\ c.date = n.date /\ c.start_time = n.start_time}}

\* Edit-timing and delete-batch keep the frame, add-members and remove-member
\* change no batch row.
FrameOfTheRest ==
  /\ \A b \in db.Batches : \A s \in {NoTime, HHMM(12, 0)} :
       FrameKept(update_batch_times(db, b.batch_id, NoDate, s, NoRoom, now + 1).db, b.practical_code, {b.batch_id})
  /\ \A b \in db.Batches : FrameKept(delete_batch(db, b.batch_id, now + 1).db, b.practical_code, {b.batch_id})
  /\ \A b \in db.Batches : \A reg \in RegNos :
       /\ add_students_to_batch(db, b.batch_id, b.practical_code, {reg}, now + 1).db.Batches = db.Batches
       /\ remove_student_from_batch(db, b.batch_id, reg, now + 1).db.Batches = db.Batches

\* C34 (cross-practical frame): create-batch, edit-timing and delete-batch on
\* a batch of practical P leave every batch row of the other practicals, every
\* membership row of other batches and every index row of other batches as
\* they were; add-members and remove-member change no batch row.
C34_CrossPracticalFrame ==
  /\ \A p \in Practicals : \A s \in {NoTime, HHMM(9, 0), HHMM(12, 0)} :
       LET r == add_batch_autosequence(db, p, Feb1, s, NoRoom, now + 1)
       IN FrameKept(r.db, p, {r.ret.batch_id})
  /\ FrameOfTheRest

\* The same, the batch that a create-batch replaces counted with the batch
\* the call is on: its membership and index rows go with it, and no row of
\* any further batch changes.
C34_FrameButReplaced ==
  /\ \A p \in Practicals : \A s \in {NoTime, HHMM(9, 0), HHMM(12, 0)} :
       LET r == add_batch_autosequence(db, p, Feb1, s, NoRoom, now + 1)
       IN FrameKept(r.db, p, {r.ret.batch_id} \cup ReplacedBy(r.db, r.ret.batch_id))
  /\ FrameOfTheRest

\* A create-batch has replaced the P1 batch of 09:00 that had a member, and
\* the P2 batch of 09:00 still has its member and its index row.
C34_Witness ==
  /\ last.op = "create" /\ last.ok
  /\ \E b \in db.Batches : b.batch_id = last.batch_id /\ b.practical_code = "P1" /\ b.start_time = HHMM(9, 0) /\ MembersOf(b.batch_id) = {}
  /\ Cardinality(BatchesOf("P1")) = 3
  /\ \E b \in db.Batches : b.practical_code = "P2" /\ MembersOf(b.batch_id) = {2} /\ \E x \in db.AssignmentsIndex : x.source_batch_id = b.batch_id

(***************************************************************************)
(* SpecRender: SpecSteps with the scheduler page drawn at the end, also    *)
(* after a call that was abandoned before its renumbering: the page calls  *)
(* reorder_batches for the selected practical (ui_scheduler_full.py:446).  *)
(***************************************************************************)
RenderPage(practical_code) ==
  /\ call = Idle
  /\ probe = NoProbe
  /\ probe' = [fn |-> "reorder_batches", practical_code |-> practical_code, before |-> db]
  /\ db' = reorder_batches(db, practical_code)
  /\ UNCHANGED <<now, last, call, pre>>

SpecRender == InitSteps /\ [][(probe = NoProbe /\ NextSteps) \/ \E p \in Practicals : RenderPage(p)]_vars

\* Store d is store e with nothing changed but the batch_no and day_index of
\* the batches of the practical.
OnlyNumbering(d, e, practical_code) ==
  /\ {Slot(b) : b \in d.Batches} = {Slot(b) : b \in e.Batches}
  /\ Cardinality(d.Batches) = Cardinality(e.Batches)
  /\ {b \in d.Batches : b.practical_code # practical_code} = {b \in e.Batches : b.practical_code # practical_code}
  /\ d.BatchMembers = e.BatchMembers /\ d.AssignmentsIndex = e.AssignmentsIndex
  /\ d.seq_Batches = e.seq_Batches /\ d.seq_AssignmentsIndex = e.seq_AssignmentsIndex

\* C35 (renumbering is idempotent and touches only numbering): in every
\* store, the stores between the commits of a call and after an abandoned
\* call included, renumbering a practical changes nothing but batch_no and
\* day_index of that practical's batches, and renumbering it again at once
\* changes nothing.
C35_RenumberingIdempotent ==
  \A p \in Practicals :
    LET once == reorder_batches(db, p)
    IN OnlyNumbering(once, db, p) /\ reorder_batches(once, p) = once

\* The page has been drawn after an abandoned call and the renumbering gave
\* a batch another number.
C35_Witness == probe.fn = "reorder_batches" /\ last.msg = "interrupted" /\ db.Batches # probe.before.Batches /\ db = reorder_batches(probe.before, probe.practical_code)

\* The columns of the index rows that the no-op edit is said to keep.
IndexContent(rows) == {<<x.reg_no, x.date, x.start_time, x.end_time, x.practical_code, x.source_batch_id>> : x \in rows}

\* The edit-timing result r is a success that changed no batch row, no
\* membership row and nothing of the content of the index.
NoOpEdit(r) == r.ret.ok /\ r.db.Batches = db.Batches /\ r.db.BatchMembers = db.BatchMembers /\ IndexContent(r.db.AssignmentsIndex) = IndexContent(db.AssignmentsIndex)

\* C36 (no-op edit succeeds): in any state reached through the mutators an
\* edit-timing of an existing batch that gives its current date and start, or
\* omits both, succeeds and leaves every batch row, every membership row and
\* the content of the index as they were.
C36_NoOpEdit ==
  \A b \in db.Batches :
    /\ NoOpEdit(update_batch_times(db, b.batch_id, NoDate, NoTime, NoRoom, now + 1))
    /\ NoOpEdit(update_batch_times(db, b.batch_id, b.date, b.start_time, NoRoom, now + 1))

\* The same for the batches whose index rows carry the batch's own practical.
C36_NoOpEditOwnPractical ==
  \A b \in db.Batches :
    (\A x \in db.AssignmentsIndex : x.source_batch_id = b.batch_id => x.practical_code = b.practical_code) =>
      /\ NoOpEdit(update_batch_times(db, b.batch_id, NoDate, NoTime, NoRoom, now + 1))
      /\ NoOpEdit(update_batch_times(db, b.batch_id, b.date, b.start_time, NoRoom, now + 1))

\* C37 (read order agrees with numbering): for every practical, in every
\* reachable state, the list that get_batches returns has strictly
\* increasing batch_no, also when the practical's dates are in one order as
\* strings and in another by the calendar.
C37_ReadOrder ==
  \A p \in Practicals :
    LET rows == get_batches(db, p, NoDate)
    IN \A i, j \in 1..Len(rows) : i < j => rows[i].batch_no < rows[j].batch_no

\* The same for the list of one date, get_batches(practical, date).
C37_ReadOrderOfOneDate ==
  \A p \in Practicals : \A d \in {b.date : b \in db.Batches} :
    LET rows == get_batches(db, p, d)
    IN \A i, j \in 1..Len(rows) : i < j => rows[i].batch_no < rows[j].batch_no

\* remove_student_from_batch called for each student of R in turn.
RECURSIVE RemovedEach(_, _, _, _)
RemovedEach(d, batch_id, R, t) ==
  IF R = {} THEN d
  ELSE LET reg == CHOOSE x \in R : \A y \in R : x <= y
       IN RemovedEach(remove_student_from_batch(d, batch_id, reg, t).db, batch_id, R \ {reg}, t)

\* C38 (add/remove round trip): for a batch and a set of students none of
\* whom is a member, a successful add-members followed by remove-member for
\* each of them gives back the membership rows and the content of the index
\* as they were before the add, and the same add-members call then succeeds
\* again.
C38_AddRemoveRoundTrip ==
  \A b \in db.Batches : \A p \in Practicals : \A R \in SUBSET RegNos \ {{}} :
    LET added == add_students_to_batch(db, b.batch_id, p, R, now + 1)
        back == RemovedEach(added.db, b.batch_id, R, now + 2)
    IN (R \cap MembersOf(b.batch_id) = {} /\ added.ret.ok) =>
         /\ back.BatchMembers = db.BatchMembers
         /\ IndexContent(back.AssignmentsIndex) = IndexContent(db.AssignmentsIndex)
         /\ back.Batches = db.Batches
         /\ add_students_to_batch(back, b.batch_id, p, R, now + 3).ret.ok

\* A student was added to a batch by the first call, removed by the second
\* and added again by the third: the one index row is the second ever written.
C38_Witness ==
  /\ last.op = "add" /\ last.ok /\ now = 3 /\ db.seq_AssignmentsIndex = 2
  /\ Cardinality(db.AssignmentsIndex) = 1 /\ Cardinality(db.BatchMembers) = 1
  /\ \E x \in db.AssignmentsIndex : x.idx_id = 2 /\ x.created_at = 3 /\ x.source_batch_id = last.batch_id /\ x.reg_no \in last.reg_nos

(***************************************************************************)
(* SpecRace: two operator sessions.  Batch 1 (P1, 01.02.2026 09:00-12:00)  *)
(* has student 1; batch 2 is a P2 batch of the same date.  Session 1 has   *)
(* issued an edit-timing of batch 1, session 2 an add-members on batch 2;  *)
(* each call runs one transaction at a time and the two interleave at the  *)
(* commits (every _connect() opens a connection of its own, lines 27-31).  *)
(* Here call holds the two frames, <<edit, add>>.                          *)
(***************************************************************************)
InitRace ==
  \E other \in {HHMM(9, 0), HHMM(12, 0), HHMM(16, 0)}, s \in {NoTime, HHMM(13, 0), HHMM(16, 0)}, R \in SUBSET RegNos \ {{}} :
    /\ db = Created(Added(Created(init_db, "P1", Feb1, NoTime), 1, "P1", {1}), "P2", Feb1, other)
    /\ call = <<EditFrame(1, NoDate, s, NoRoom), AddFrame(2, "P2", R)>>
    /\ now = 0
    /\ last = [op |-> "init", ok |-> TRUE, msg |-> "", batch_id |-> 0, reg_nos |-> {}]
    /\ pre = NoCall
    /\ probe = NoProbe

\* Session i runs the next transaction of its call.
SessionStep(i) ==
  /\ call[i] # Idle
  /\ now' = now + 1
  /\ LET r == Step(db, call[i], now + 1)
     IN /\ db' = r.db
        /\ call' = [call EXCEPT ![i] = r.call]
        /\ last' = IF r.call = Idle THEN Result(call[i], r) ELSE last
  /\ UNCHANGED <<pre, probe>>

SpecRace == InitRace /\ [][\E i \in {1, 2} : SessionStep(i)]_vars

\* In store d no student is a member of batch 1 and of batch 2 while the two
\* batches are on one date and overlap or are closer than the minimum gap.
NotInBoth(d) ==
  \A a, b \in d.Batches : \A m, n \in d.BatchMembers :
    (a.batch_id = 1 /\ b.batch_id = 2 /\ m.batch_id = 1 /\ n.batch_id = 2 /\ m.reg_no = n.reg_no /\ a.date = b.date)
      => ~Conflicting(Strptime(a.start_time), Strptime(a.end_time), Strptime(b.start_time), Strptime(b.end_time))

\* C39 (no double booking under interleaving): when the edit-timing of batch
\* A and the add-members on batch B have both returned, however their
\* transactions interleaved, no member of A is in A and in B with intervals
\* on one date that overlap or are closer than the minimum gap.
C39_NoDoubleBookingInterleaved == (call[1] = Idle /\ call[2] = Idle) => NotInBoth(db)

\* The same with the two calls one after the other, in either order.
C39_NoDoubleBookingSerial ==
  (call[1] # Idle /\ call[1].pc = 1 /\ call[2] # Idle /\ call[2].pc = 1) =>
    /\ NotInBoth(Run(Run(db, call[1], 1).db, call[2], 2).db)
    /\ NotInBoth(Run(Run(db, call[2], 1).db, call[1], 2).db)

====
